---- MODULE Spec2Model ----
(***************************************************************************)
(* Model of the password generator of password-generator/js/main.js:       *)
(* the PasswordGenerator controller (state, DOM elements it writes,        *)
(* timers, the continuations of a generation and of a copy after their     *)
(* await), its character-set builder, its secure generator and its         *)
(* strength evaluator.                                                     *)
(*                                                                         *)
(* Representation.                                                         *)
(*  - A JavaScript string is a sequence of UTF-16 code units (integers);   *)
(*    only printable ASCII (32..126) occurs.  Literals of the source are   *)
(*    written as tuples of one-character strings and converted by Str.     *)
(*  - A Uint32 random value r is the pair [hi, lo] of its 16-bit halves,   *)
(*    r = hi * 65536 + lo, so that r % n is computed without leaving the   *)
(*    range of the checker's integers.                                     *)
(*  - A Number (entropy, seconds, years) is an IEEE 754 double, held as    *)
(*    its 53-bit mantissa and its exponent, and the arithmetic on Numbers  *)
(*    rounds as the double arithmetic of the source does; Math.log2 is a   *)
(*    table of its values and Math.pow(2, x) is computed step by step as   *)
(*    the engine that runs the source (V8) computes it, which is within    *)
(*    one unit in the last place of 2^x and not always the nearest double. *)
(*  - Fonts, colours, the strength bar's width and console output are not  *)
(*    part of the state.                                                   *)
(***************************************************************************)
EXTENDS Integers, Sequences, FiniteSets, TLC

(***************************************************************************)
(* Bounds of the model.                                                    *)
(***************************************************************************)
\* number of distinct random seeds offered to one generation
MaxSeed == 1
\* largest number of pending feedback auto-hide timers that is tracked
MaxHideTimers == 1
\* pending timers (auto-hide, success-flash) up to which the copy button is
\* clicked
MaxCopyTimers == 2
\* how far above MIN_LENGTH / below MAX_LENGTH the slider inputs reach
LengthSpread == 0
\* calls a script makes between its call of generatePassword and its end,
\* while the continuation of that generation waits
MaxScriptCalls == 1

(***************************************************************************)
(* Numbers.  A JavaScript Number that is not negative is the record        *)
(* [m, e] of value M * 2^e, where m is M as four limbs of 14 bits, least   *)
(* significant first, and 2^52 <= M < 2^53; zero is Zero.  The operations  *)
(* round to nearest, ties to even, as IEEE 754 binary64 does.              *)
(***************************************************************************)
Radix == 16384
LimbWidth == 14

\* the element of a singleton: The({F(x) : x \in {e}}) is F(e), with the
\* value of e named x
The(S) == CHOOSE x \in S : TRUE

\* naturals of any size: little-endian tuples of limbs 0..Radix-1
Limb(n, i) == IF i >= 1 /\ i <= Len(n) THEN n[i] ELSE 0
IsZero(n) == \A i \in 1..Len(n) : n[i] = 0
LimbBits(x) == IF x = 0 THEN 0 ELSE CHOOSE b \in 1..LimbWidth : x < 2^b /\ x >= 2^(b - 1)
BitLength(n) ==
    IF IsZero(n) THEN 0
    ELSE The({LimbWidth * (top - 1) + LimbBits(n[top]) :
                top \in {CHOOSE i \in 1..Len(n) :
                            n[i] # 0 /\ \A j \in (i + 1)..Len(n) : n[j] = 0}})

\* floor(n / 2^s) and n * 2^s
ShiftRight(n, s) ==
    The({[i \in 1..Len(n) |->
            (Limb(n, i + q) \div 2^r) + (Limb(n, i + q + 1) % 2^r) * 2^(LimbWidth - r)]
         \o <<>> : q \in {s \div LimbWidth}, r \in {s % LimbWidth}})
ShiftLeft(n, s) ==
    The({[i \in 1..(Len(n) + q + 1) |->
            (Limb(n, i - q) % 2^(LimbWidth - r)) * 2^r
            + (Limb(n, i - q - 1) \div 2^(LimbWidth - r))]
         \o <<>> : q \in {s \div LimbWidth}, r \in {s % LimbWidth}})

\* bit k of n (bit 0 is the lowest), and whether a bit below bit k is set
Bit(n, k) == (Limb(n, (k \div LimbWidth) + 1) \div 2^(k % LimbWidth)) % 2
LowBitsSet(n, k) ==
    \E i \in 1..Len(n) :
        IF LimbWidth * i <= k THEN n[i] # 0
        ELSE LimbWidth * (i - 1) < k /\ n[i] % 2^(k - LimbWidth * (i - 1)) # 0

\* the value of a natural below 2^31
IntOf(n) == Limb(n, 1) + Limb(n, 2) * Radix + Limb(n, 3) * Radix * Radix

\* the natural whose limbs are the sums t, each below 2 * Radix - 1: the
\* carry into limb k comes from a limb below that overflows, through limbs
\* that pass it on
Rippled(t) ==
    [k \in 1..Len(t) |->
        (t[k] + (IF \E j \in 1..(k - 1) :
                       t[j] >= Radix /\ \A i \in (j + 1)..(k - 1) : t[i] >= Radix - 1
                 THEN 1 ELSE 0)) % Radix] \o <<>>

\* the natural whose limbs are the column sums c, each below 2^31
Carried(c) ==
    The({Rippled([k \in 1..Len(s) |-> (s[k] % Radix) + (Limb(s, k - 1) \div Radix)] \o <<>>) :
           s \in {[k \in 1..(Len(c) + 2) |->
                     (Limb(c, k) % Radix) + ((Limb(c, k - 1) \div Radix) % Radix)
                     + (Limb(c, k - 2) \div (Radix * Radix))] \o <<>>}})

\* the product of two naturals of at most six limbs each
BigTimes(a, b) ==
    Carried([k \in 1..(Len(a) + Len(b)) |->
                Limb(a, 1) * Limb(b, k) + Limb(a, 2) * Limb(b, k - 1)
                + Limb(a, 3) * Limb(b, k - 2) + Limb(a, 4) * Limb(b, k - 3)
                + Limb(a, 5) * Limb(b, k - 4) + Limb(a, 6) * Limb(b, k - 5)] \o <<>>)

BigPlus(a, b) ==
    Rippled([k \in 1..((IF Len(a) > Len(b) THEN Len(a) ELSE Len(b)) + 1) |->
                Limb(a, k) + Limb(b, k)] \o <<>>)

\* a - b for a >= b: the borrow into limb k comes from a limb below where
\* a has less than b, through limbs where it has no more
BigMinus(a, b) ==
    [k \in 1..Len(a) |->
        (a[k] - Limb(b, k) + Radix
         - (IF \E j \in 1..(k - 1) :
                  a[j] < Limb(b, j) /\ \A i \in (j + 1)..(k - 1) : a[i] <= Limb(b, i)
            THEN 1 ELSE 0)) % Radix] \o <<>>

Zero == [m |-> <<0, 0, 0, 0>>, e |-> 0]
Mantissa(n) == <<Limb(n, 1), Limb(n, 2), Limb(n, 3), Limb(n, 4)>>

\* the mantissa plus one unit in the last place
Increment(m) ==
    IF m[1] + 1 < Radix THEN <<m[1] + 1, m[2], m[3], m[4]>>
    ELSE IF m[2] + 1 < Radix THEN <<0, m[2] + 1, m[3], m[4]>>
    ELSE IF m[3] + 1 < Radix THEN <<0, 0, m[3] + 1, m[4]>>
    ELSE <<0, 0, 0, m[4] + 1>>

\* n * 2^e for a natural n of more than 53 bits, rounded to 53 bits; s is
\* the number of bits dropped
RoundedTo53(n, e, sticky, s) ==
    The({IF ~(/\ Bit(n, s - 1) = 1
              /\ (sticky \/ LowBitsSet(n, s - 1) \/ kept[1] % 2 = 1))
         THEN [m |-> kept, e |-> e + s]
         ELSE IF kept = <<Radix - 1, Radix - 1, Radix - 1, 2047>>
         THEN [m |-> <<0, 0, 0, 1024>>, e |-> e + s + 1]
         ELSE [m |-> Increment(kept), e |-> e + s] :
           kept \in {Mantissa(ShiftRight(n, s))}})

\* the Number nearest to number * 2^exponent, ties to even; sticky tells
\* that the exact value lies above it by less than 2^exponent
Round(number, exponent, sticky) ==
    The({The({IF bits = 0 THEN Zero
              ELSE IF bits <= 53
              THEN [m |-> Mantissa(ShiftLeft(n, 53 - bits)), e |-> e - (53 - bits)]
              ELSE RoundedTo53(n, e, sticky, bits - 53) :
                bits \in {BitLength(n)}}) :
           n \in {number}, e \in {exponent}})

\* 2^1024, which no Number reaches, stands for Infinity
Infinity == [m |-> <<0, 0, 0, 1024>>, e |-> 972]

\* the Number of an integer 0 <= n < 2^31
Number(n) == Round(<<n % Radix, (n \div Radix) % Radix, n \div (Radix * Radix)>>, 0, FALSE)

\* x * 2^k, exact
Scaled(x, k) ==
    The({IF a = Zero THEN Zero
         ELSE IF a = Infinity \/ a.e + k > 971 THEN Infinity
         ELSE [m |-> a.m, e |-> a.e + k] : a \in {x}})

\* x < y
Less(x, y) ==
    \E a \in {x}, b \in {y} :
        IF b = Zero THEN FALSE
        ELSE IF a = Zero THEN TRUE
        ELSE IF a.e # b.e THEN a.e < b.e
        ELSE \E i \in 1..4 : a.m[i] < b.m[i] /\ \A j \in (i + 1)..4 : a.m[j] = b.m[j]

MathMin(x, y) == The({IF Less(b, a) THEN b ELSE a : a \in {x}, b \in {y}})
MathMax(x, y) == The({IF Less(a, b) THEN b ELSE a : a \in {x}, b \in {y}})

\* x * y: the product of the mantissas, column by column, rounded
Times(x, y) ==
    The({IF a = Zero \/ b = Zero THEN Zero
         ELSE IF a = Infinity \/ b = Infinity THEN Infinity
         ELSE The({Scaled(Round(Carried(
                  <<p[1] * q[1],
                    p[1] * q[2] + p[2] * q[1],
                    p[1] * q[3] + p[2] * q[2] + p[3] * q[1],
                    p[1] * q[4] + p[2] * q[3] + p[3] * q[2] + p[4] * q[1],
                    p[2] * q[4] + p[3] * q[3] + p[4] * q[2],
                    p[3] * q[4] + p[4] * q[3],
                    p[4] * q[4]>>), a.e + b.e, FALSE), 0) : p \in {a.m}, q \in {b.m}}) :
           a \in {x}, b \in {y}})

\* the quotient and the remainder of the natural with the digits d (base
\* 128, highest first, twelve of them) by k < 2^24, digit by digit: 
\* t[i] is the remainder so far with digit i appended
LongDivision(d, k) ==
    The({The({The({The({The({The({The({The({The({The({The({
        [q |-> <<(t11 \div k) * 128 + (t12 \div k), (t9 \div k) * 128 + (t10 \div k),
                 (t7 \div k) * 128 + (t8 \div k), (t5 \div k) * 128 + (t6 \div k),
                 (t3 \div k) * 128 + (t4 \div k), (d[1] \div k) * 128 + (t2 \div k)>>,
         r |-> t12 % k] :
        t12 \in {(t11 % k) * 128 + d[12]}}) : t11 \in {(t10 % k) * 128 + d[11]}}) :
        t10 \in {(t9 % k) * 128 + d[10]}}) : t9 \in {(t8 % k) * 128 + d[9]}}) :
        t8 \in {(t7 % k) * 128 + d[8]}}) : t7 \in {(t6 % k) * 128 + d[7]}}) :
        t6 \in {(t5 % k) * 128 + d[6]}}) : t5 \in {(t4 % k) * 128 + d[5]}}) :
        t4 \in {(t3 % k) * 128 + d[4]}}) : t3 \in {(t2 % k) * 128 + d[3]}}) :
        t2 \in {(d[1] % k) * 128 + d[2]}})

\* x / k for an integer 0 < k < 2^24
DividedBy(x, k) ==
    The({IF a = Zero THEN Zero
         ELSE IF a = Infinity THEN Infinity
         ELSE The({Round(d.q, a.e - 2 * LimbWidth, d.r # 0) :
                     d \in {LongDivision(
                               <<a.m[4] \div 128, a.m[4] % 128, a.m[3] \div 128, a.m[3] % 128,
                                 a.m[2] \div 128, a.m[2] % 128, a.m[1] \div 128, a.m[1] % 128,
                                 0, 0, 0, 0>>, k)}}) :
           a \in {x}})

\* x / k for an integer 0 < k < 2^31 whose odd part is below 2^24
Over(x, k) ==
    The({Scaled(DividedBy(x, k \div 2^twos), -twos) :
           twos \in {CHOOSE j \in 0..30 : k % 2^j = 0 /\ (k \div 2^j) % 2 = 1}})

\* the Number nearest to num / den: a decimal literal of the source
Ratio(num, den) == Over(Number(num), den)

\* 1 + x and 1 - x for 0 <= x < 1
OnePlus(x) ==
    The({IF a = Zero THEN Number(1)
         ELSE Round(BigPlus(ShiftLeft(<<1>>, -a.e), a.m), a.e, FALSE) : a \in {x}})
OneMinus(x) ==
    The({IF a = Zero THEN Number(1)
         ELSE Round(BigMinus(ShiftLeft(<<1>>, -a.e), a.m), a.e, FALSE) : a \in {x}})

\* the largest Number below x > 0
Below(x) ==
    The({IF a.m = <<0, 0, 0, 1024>>
         THEN [m |-> <<Radix - 1, Radix - 1, Radix - 1, 2047>>, e |-> a.e - 1]
         ELSE [m |-> Mantissa(BigMinus(a.m, <<1>>)), e |-> a.e] : a \in {x}})

\* floor(x + 0.5) for x < 2^31: Math.round
MathRound(x) ==
    The({IF a = Zero THEN 0
         ELSE IF a.e >= 0 THEN IntOf(ShiftLeft(a.m, a.e))
         ELSE IntOf(ShiftRight(a.m, -a.e)) + Bit(a.m, (-a.e) - 1) : a \in {x}})

\* the integer n with n / 10 nearest to x, the larger of two: the digits
\* of x.toFixed(1)
ToFixed1(x) ==
    The({IF a = Zero THEN 0
         ELSE The({IF a.e >= 0 THEN IntOf(ShiftLeft(n, a.e))
                   ELSE IntOf(ShiftRight(n, -a.e)) + Bit(n, (-a.e) - 1) :
                     n \in {BigTimes(a.m, <<10>>)}}) :
           a \in {x}})

\* the magnitudes: x + y, and x - y for x >= y
PlusAligned(a, b) ==
    IF a.e - b.e > 55 THEN a
    ELSE Round(BigPlus(ShiftLeft(a.m, a.e - b.e), b.m), b.e, FALSE)
Plus(x, y) ==
    The({IF a = Zero THEN b
         ELSE IF b = Zero THEN a
         ELSE IF a.e < b.e THEN PlusAligned(b, a)
         ELSE PlusAligned(a, b) : a \in {x}, b \in {y}})
Minus(x, y) ==
    The({IF b = Zero \/ a.e - b.e > 55 THEN a
         ELSE Round(BigMinus(ShiftLeft(a.m, a.e - b.e), b.m), b.e, FALSE) :
           a \in {x}, b \in {y}})

\* a < b for naturals of at most nine limbs
BigLess(a, b) ==
    \E i \in 1..9 : Limb(a, i) < Limb(b, i) /\ \A j \in (i + 1)..9 : Limb(a, j) = Limb(b, j)

\* one digit of the long division by d, four limbs of which the highest is
\* 2^13 or more: r < d is the remainder so far and digit the next limb of
\* the dividend; the estimate from the two highest limbs is the digit or
\* exceeds it by at most 2
DivisionStep(r, digit, d) ==
    The({The({IF ~BigLess(rem, p)
              THEN [q |-> estimate, r |-> SubSeq(BigMinus(rem, p), 1, 4)]
              ELSE The({IF ~BigLess(rem, p1)
                        THEN [q |-> estimate - 1, r |-> SubSeq(BigMinus(rem, p1), 1, 4)]
                        ELSE [q |-> estimate - 2,
                              r |-> SubSeq(BigMinus(rem, BigMinus(p1, d)), 1, 4)] :
                          p1 \in {BigMinus(p, d)}}) :
                p \in {BigTimes(d, <<estimate>>)}}) :
           rem \in {<<digit, r[1], r[2], r[3], r[4]>>},
           estimate \in {IF (r[4] * Radix + r[3]) \div d[4] < Radix
                         THEN (r[4] * Radix + r[3]) \div d[4]
                         ELSE Radix - 1}})

\* x / y for y > 0: the quotient of x.m * 2^59 by y.m * 2^3, five limbs,
\* rounded
Divide(x, y) ==
    The({IF a = Zero THEN Zero
         ELSE The({The({The({The({The({The({
                  Round(<<s1.q, s2.q, s3.q, s4.q, s5.q>>, a.e - b.e - 56,
                        \E i \in 1..4 : s1.r[i] # 0) :
                  s1 \in {DivisionStep(s2.r, n[1], d)}}) :
                  s2 \in {DivisionStep(s3.r, n[2], d)}}) :
                  s3 \in {DivisionStep(s4.r, n[3], d)}}) :
                  s4 \in {DivisionStep(s5.r, n[4], d)}}) :
                  s5 \in {DivisionStep(<<n[6], n[7], n[8], 0>>, n[5], d)}}) :
                n \in {ShiftLeft(a.m, 59)}, d \in {SubSeq(ShiftLeft(b.m, 3), 1, 4)}}) :
           a \in {x}, b \in {y}})

\* Numbers with a sign: abs is the magnitude
Signed(negative, magnitude) == [neg |-> negative, abs |-> magnitude]
Sum(x, y) ==
    The({IF a.neg = b.neg THEN Signed(a.neg, Plus(a.abs, b.abs))
         ELSE IF Less(a.abs, b.abs) THEN Signed(b.neg, Minus(b.abs, a.abs))
         ELSE Signed(a.neg, Minus(a.abs, b.abs)) : a \in {x}, b \in {y}})
Difference(x, y) ==
    The({Sum(a, Signed(~b.neg, b.abs)) : a \in {x}, b \in {y}})
Product(x, y) ==
    The({Signed(a.neg # b.neg, Times(a.abs, b.abs)) : a \in {x}, b \in {y}})
Quotient(x, y) ==
    The({Signed(a.neg # b.neg, Divide(a.abs, b.abs)) : a \in {x}, b \in {y}})

\* SET_LOW_WORD(x, 0): the low 32 bits of the mantissa cleared
HighWordOnly(x) ==
    The({IF a = Zero THEN Zero
         ELSE [m |-> <<0, 0, (a.m[3] \div 16) * 16, a.m[4]>>, e |-> a.e] : a \in {x}})

\* the constants of pow: ln 2, its high and low part, the coefficients of
\* the series, the square root of 2, and the Numbers it compares with
PowConstants ==
    [lg2   |-> Signed(FALSE, [m |-> <<14831, 15336, 9263, 1419>>, e |-> -53]),
     lg2_h |-> Signed(FALSE, [m |-> <<0, 0, 9264, 1419>>, e |-> -53]),
     lg2_l |-> Signed(TRUE, [m |-> <<11321, 12961, 1552, 1047>>, e |-> -81]),
     P1    |-> Signed(FALSE, [m |-> <<5438, 5461, 5461, 1365>>, e |-> -55]),
     P2    |-> Signed(TRUE, [m |-> <<15763, 6906, 5825, 1456>>, e |-> -61]),
     P3    |-> Signed(FALSE, [m |-> <<7724, 15511, 9898, 1109>>, e |-> -66]),
     P4    |-> Signed(TRUE, [m |-> <<11249, 5961, 5148, 1775>>, e |-> -72]),
     P5    |-> Signed(FALSE, [m |-> <<9424, 2810, 13975, 1421>>, e |-> -77]),
     sqrt2 |-> [m |-> <<15309, 6652, 2534, 1448>>, e |-> -52],
     half  |-> Ratio(1, 2),
     one   |-> Number(1),
     two   |-> Number(2),
     four  |-> Number(4),
     huge  |-> Number(1024)]

\* 2^(p_h + p_l) of pow, for p_h + p_l = y - n at most 1/2 in
\* magnitude: z = (p_h + p_l) ln 2 in two parts, then
\* 1 - (z t1 / ((t1 - 2) - (w + z w)) - z) with t1 = z - z^2 (P1 + ...)
Exp2Reduced(p_h, p_l) ==
    The({The({The({The({The({The({
        Difference(
            Signed(FALSE, PowConstants.one),
            Difference(
                Quotient(Product(z, t1),
                         Difference(Difference(t1, Signed(FALSE, PowConstants.two)),
                                    Sum(w, Product(z, w)))),
                z)).abs :
        t1 \in {Difference(z, Product(tt, polynomial))}}) :
        polynomial \in {Sum(PowConstants.P1, Product(tt, Sum(PowConstants.P2, Product(tt, Sum(PowConstants.P3, Product(tt,
                            Sum(PowConstants.P4, Product(tt, PowConstants.P5))))))))}}) :
        w \in {Difference(v, Difference(z, u))}, tt \in {Product(z, z)}}) :
        z \in {Sum(u, v)}}) :
        u \in {Product(t, PowConstants.lg2_h)},
        v \in {Sum(Product(Difference(p_l, Difference(t, p_h)), PowConstants.lg2), Product(t, PowConstants.lg2_l))}}) :
        t \in {The({Signed(sum.neg, HighWordOnly(sum.abs)) : sum \in {Sum(p_l, p_h)}})}})

\* Math.pow(2, y) for y >= 0 as the engine computes it: pow of fdlibm with
\* x = 2, whose logarithm is 1 exactly.  y is split into its high word y1
\* and the rest, n is y1 rounded to an integer if the high word of y
\* exceeds that of 0.5 and 0 otherwise, and the result is
\* 2^n * Exp2Reduced
Pow2(y) ==
    The({IF a = Zero THEN PowConstants.one
         ELSE IF ~Less(a, PowConstants.huge) THEN Infinity
         ELSE IF a = PowConstants.one THEN PowConstants.two
         ELSE IF a = PowConstants.two THEN PowConstants.four
         ELSE IF a = PowConstants.half THEN PowConstants.sqrt2
         ELSE The({The({Scaled(Exp2Reduced(Difference(Signed(FALSE, y1),
                                                      Signed(FALSE, Number(n))),
                                           Signed(FALSE, Minus(a, y1))), n) :
                          n \in {IF Less(PowConstants.half, y1) THEN MathRound(y1) ELSE 0}}) :
                     y1 \in {HighWordOnly(a)}}) :
           a \in {y}})

(***************************************************************************)
(* 1. CONFIG (main.js 33-62)                                               *)
(***************************************************************************)
MIN_LENGTH == 4
MAX_LENGTH == 128
DEFAULT_LENGTH == 12
RECOMMENDED_MIN_LENGTH == 12

\* CONFIG.SECURITY_LEVELS in property order
SECURITY_LEVELS ==
    << [level |-> "VERY_WEAK", min |-> Number(0),   max |-> Number(25),  class |-> "weak"],
       [level |-> "WEAK",      min |-> Number(25),  max |-> Number(50),  class |-> "weak"],
       [level |-> "FAIR",      min |-> Number(50),  max |-> Number(75),  class |-> "fair"],
       [level |-> "GOOD",      min |-> Number(75),  max |-> Number(100), class |-> "good"],
       [level |-> "STRONG",    min |-> Number(100), max |-> Number(125), class |-> "strong"],
       [level |-> "EXCELLENT", min |-> Number(125), max |-> Infinity,    class |-> "excellent"] >>

(***************************************************************************)
(* Strings as sequences of code units.                                     *)
(***************************************************************************)
\* the printable ASCII characters, code units 32..126, in code order
\* ("grave" stands for the grave accent, code unit 96)
Ascii ==
    <<" ", "!", "\"", "#", "$", "%", "&", "'", "(", ")", "*", "+", ",", "-", ".", "/",
      "0", "1", "2", "3", "4", "5", "6", "7", "8", "9", ":", ";", "<", "=", ">", "?",
      "@", "A", "B", "C", "D", "E", "F", "G", "H", "I", "J", "K", "L", "M", "N", "O",
      "P", "Q", "R", "S", "T", "U", "V", "W", "X", "Y", "Z", "[", "\\", "]", "^", "_",
      "grave", "a", "b", "c", "d", "e", "f", "g", "h", "i", "j", "k", "l", "m", "n", "o",
      "p", "q", "r", "s", "t", "u", "v", "w", "x", "y", "z", "{", "|", "}", "~">>

\* String.prototype.charCodeAt for a one-character string
CharCode == [c \in {Ascii[i] : i \in 1..Len(Ascii)} |->
                31 + (CHOOSE i \in 1..Len(Ascii) : Ascii[i] = c)]

\* a string literal, given character by character, as code units
Str(chars) == [i \in 1..Len(chars) |-> CharCode[chars[i]]]

\* String.prototype.toLowerCase on ASCII
LowerChar(c) == IF c >= 65 /\ c <= 90 THEN c + 32 ELSE c
toLowerCase(s) == [i \in 1..Len(s) |-> LowerChar(s[i])]

\* String.prototype.includes(pat): pat occurs in s as a substring
includes(s, pat) ==
    \E k \in 0..(Len(s) - Len(pat)) :
        \A j \in 1..Len(pat) : s[k + j] = pat[j]

\* membership of a character in a string (String.prototype.includes(char))
CharIn(c, s) == \E i \in 1..Len(s) : s[i] = c

\* the set of code units of a string
CharsOf(s) == {s[i] : i \in 1..Len(s)}

(***************************************************************************)
(* CHARACTER_SETS (main.js 68-79)                                          *)
(***************************************************************************)
lowercase ==
    Str(<<"a", "b", "c", "d", "e", "f", "g", "h", "i", "j", "k", "l", "m",
          "n", "o", "p", "q", "r", "s", "t", "u", "v", "w", "x", "y", "z">>)
uppercase ==
    Str(<<"A", "B", "C", "D", "E", "F", "G", "H", "I", "J", "K", "L", "M",
          "N", "O", "P", "Q", "R", "S", "T", "U", "V", "W", "X", "Y", "Z">>)
numbers == Str(<<"0", "1", "2", "3", "4", "5", "6", "7", "8", "9">>)
symbols ==
    Str(<<"!", "@", "#", "$", "%", "^", "&", "*", "(", ")", "_", "+", "-",
          "=", "[", "]", "{", "}", "|", ";", ":", ",", ".", "<", ">", "?">>)
ambiguousSimilar == Str(<<"0", "O", "1", "l", "I">>)
ambiguousConfusing ==
    Str(<<"{", "}", "[", "]", "(", ")", "/", "\\", "|", "grave", "~">>)

(***************************************************************************)
(* buildCharacterSet (main.js 246-263)                                     *)
(***************************************************************************)
\* the filter with its negation lost: the characters of s that are in excluded
FilterOutInverted(s, excluded) == SelectSeq(s, LAMBDA c : CharIn(c, excluded))

\* the filter of main.js 258: the characters of s that are not in excluded
FilterOut(s, excluded) == SelectSeq(s, LAMBDA c : ~CharIn(c, excluded))

\* the distinct characters of s sorted by code unit, as a sort() after the
\* Set round trip would leave them
DedupSorted(s) ==
    LET distinct == CharsOf(s)
    IN  [k \in 1..Cardinality(distinct) |->
            CHOOSE c \in distinct : Cardinality({d \in distinct : d <= c}) = k]

\* the Set round trip of main.js 262: a Set keeps the first occurrence of
\* each character, in insertion order
Dedup(s) ==
    LET firsts == {i \in 1..Len(s) : \A j \in 1..(i - 1) : s[j] # s[i]}
        kept   == SelectSeq([i \in 1..Len(s) |-> i], LAMBDA i : i \in firsts)
    IN  [k \in 1..Len(kept) |-> s[kept[k]]]

\* EnabledChars with the line that adds the symbols left out
EnabledCharsWithoutSymbols(st) ==
    (IF st.includeUppercase THEN uppercase ELSE <<>>)
    \o (IF st.includeLowercase THEN lowercase ELSE <<>>)
    \o (IF st.includeNumbers THEN numbers ELSE <<>>)

\* the concatenation of the enabled categories (main.js 247-253)
EnabledChars(st) ==
    (IF st.includeUppercase THEN uppercase ELSE <<>>)
    \o (IF st.includeLowercase THEN lowercase ELSE <<>>)
    \o (IF st.includeNumbers THEN numbers ELSE <<>>)
    \o (IF st.includeSymbols THEN symbols ELSE <<>>)

ambiguousChars == ambiguousSimilar \o ambiguousConfusing

\* the pool with the ambiguous characters filtered out whatever the flag
buildCharacterSetAlwaysFiltering(st) ==
    Dedup(FilterOut(EnabledChars(st), ambiguousChars))

buildCharacterSet(st) ==
    LET chars == EnabledChars(st)
        kept  == IF st.excludeAmbiguous
                 THEN FilterOut(chars, ambiguousChars)
                 ELSE chars
    IN  Dedup(kept)

(***************************************************************************)
(* 4. Strength evaluation (main.js 275-432)                                *)
(***************************************************************************)
\* this.COMMON_PASSWORDS (main.js 108-112)
COMMON_PASSWORDS ==
    <<
      Str(<<"p", "a", "s", "s", "w", "o", "r", "d">>),
      Str(<<"1", "2", "3", "4", "5", "6">>),
      Str(<<"1", "2", "3", "4", "5", "6", "7", "8", "9">>),
      Str(<<"q", "w", "e", "r", "t", "y">>),
      Str(<<"a", "b", "c", "1", "2", "3">>),
      Str(<<"l", "e", "t", "m", "e", "i", "n">>),
      Str(<<"m", "o", "n", "k", "e", "y">>),
      Str(<<"d", "r", "a", "g", "o", "n">>),
      Str(<<"1", "1", "1", "1", "1", "1">>),
      Str(<<"i", "l", "o", "v", "e", "y", "o", "u">>),
      Str(<<"a", "d", "m", "i", "n">>),
      Str(<<"w", "e", "l", "c", "o", "m", "e">>),
      Str(<<"f", "o", "o", "t", "b", "a", "l", "l">>),
      Str(<<"1", "2", "3", "1", "2", "3">>),
      Str(<<"s", "t", "a", "r", "w", "a", "r", "s">>),
      Str(<<"q", "w", "e", "r", "t", "y", "u", "i", "o", "p">>),
      Str(<<"p", "a", "s", "s", "w", "0", "r", "d">>),
      Str(<<"m", "a", "s", "t", "e", "r">>),
      Str(<<"h", "e", "l", "l", "o">>),
      Str(<<"f", "r", "e", "e", "d", "o", "m">>),
      Str(<<"w", "h", "a", "t", "e", "v", "e", "r">>),
      Str(<<"q", "a", "z", "w", "s", "x">>),
      Str(<<"t", "r", "u", "s", "t", "n", "o", "1">>),
      Str(<<"6", "5", "4", "3", "2", "1">>),
      Str(<<"j", "o", "r", "d", "a", "n", "2", "3">>),
      Str(<<"s", "u", "p", "e", "r", "m", "a", "n">>),
      Str(<<"h", "a", "r", "l", "e", "y">>),
      Str(<<"h", "u", "n", "t", "e", "r">>),
      Str(<<"b", "a", "s", "e", "b", "a", "l", "l">>),
      Str(<<"b", "a", "t", "m", "a", "n">>)
    >>

\* Array.prototype.includes on an array of strings
ArrayIncludes(arr, s) == \E i \in 1..Len(arr) : arr[i] = s

\* the lookup without the conversion to lower case
isCommonPasswordCaseSensitive(password) == ArrayIncludes(COMMON_PASSWORDS, password)

\* isCommonPassword (main.js 307-309)
isCommonPassword(password) == ArrayIncludes(COMMON_PASSWORDS, toLowerCase(password))

\* the patterns array of calculateKeyboardPatternPenalty (main.js 315-317)
KEYBOARD_PATTERNS ==
    <<
      Str(<<"q", "w", "e", "r", "t", "y">>),
      Str(<<"a", "s", "d", "f">>),
      Str(<<"z", "x", "c", "v">>),
      Str(<<"1", "2", "3", "4", "5">>),
      Str(<<"q", "a", "z", "w", "s", "x">>),
      Str(<<"1", "q", "2", "w", "3", "e">>),
      Str(<<"w", "a", "s", "d">>),
      Str(<<"p", "o", "i", "u", "y">>),
      Str(<<"l", "k", "j", "h", "g">>),
      Str(<<"m", "n", "b", "v", "c">>),
      Str(<<"p", "a", "s", "s">>),
      Str(<<"w", "o", "r", "d">>)
    >>

\* the search without the conversion to lower case
calculateKeyboardPatternPenaltyCaseSensitive(password) ==
    IF \E i \in 1..Len(KEYBOARD_PATTERNS) : includes(password, KEYBOARD_PATTERNS[i])
    THEN 4
    ELSE 0

\* calculateKeyboardPatternPenalty (main.js 314-323), in tenths: 4 is 0.4
calculateKeyboardPatternPenalty(password) ==
    LET lower == toLowerCase(password)
    IN  IF \E i \in 1..Len(KEYBOARD_PATTERNS) : includes(lower, KEYBOARD_PATTERNS[i])
        THEN 4
        ELSE 0

\* Math.log2(n) for n in 1..128: the four limbs of the mantissa and the
\* exponent of each value
Log2Table ==
    <<
      <<0, 0, 0, 0, 0>>, <<0, 0, 0, 1024, -52>>, <<15720, 3710, 26, 1623, -52>>,
      <<0, 0, 0, 1024, -51>>, <<9073, 9702, 13552, 1188, -51>>, <<7860, 1855, 8205, 1323, -51>>,
      <<1069, 15696, 5991, 1437, -51>>, <<0, 0, 0, 1536, -51>>, <<15720, 3710, 26, 1623, -51>>,
      <<9073, 9702, 13552, 1700, -51>>, <<7490, 12313, 3751, 1771, -51>>, <<7860, 1855, 8205, 1835, -51>>,
      <<8755, 3655, 10242, 1894, -51>>, <<1069, 15696, 5991, 1949, -51>>, <<550, 11558, 5373, 2000, -51>>,
      <<0, 0, 0, 1024, -50>>, <<9292, 12204, 6397, 1046, -50>>, <<7860, 1855, 8205, 1067, -50>>,
      <<4928, 5920, 7691, 1087, -50>>, <<4537, 4851, 6776, 1106, -50>>, <<12657, 8775, 7098, 1124, -50>>,
      <<11937, 14348, 10067, 1141, -50>>, <<1877, 107, 522, 1158, -50>>, <<12122, 9119, 12294, 1173, -50>>,
      <<9073, 9702, 13552, 1188, -50>>, <<12569, 1827, 5121, 1203, -50>>, <<3598, 10975, 4115, 1217, -50>>,
      <<534, 16040, 11187, 1230, -50>>, <<9819, 1962, 10537, 1243, -50>>, <<275, 13971, 2686, 1256, -50>>,
      <<3406, 6577, 4493, 1268, -50>>, <<0, 0, 0, 1280, -50>>, <<7675, 7084, 5978, 1291, -50>>,
      <<9292, 12204, 6397, 1302, -50>>, <<5071, 4507, 1580, 1313, -50>>, <<7860, 1855, 8205, 1323, -50>>,
      <<10085, 1462, 10159, 1333, -50>>, <<4928, 5920, 7691, 1343, -50>>, <<8308, 10947, 1031, 1353, -50>>,
      <<4537, 4851, 6776, 1362, -50>>, <<4302, 13159, 8737, 1371, -50>>, <<12657, 8775, 7098, 1380, -50>>,
      <<2090, 15822, 2027, 1389, -50>>, <<11937, 14348, 10067, 1397, -50>>, <<12397, 6706, 14981, 1405, -50>>,
      <<1877, 107, 522, 1414, -50>>, <<14850, 3914, 15970, 1421, -50>>, <<12122, 9119, 12294, 1429, -50>>,
      <<1069, 15696, 5991, 1437, -50>>, <<9073, 9702, 13552, 1444, -50>>, <<5030, 4940, 2308, 1452, -50>>,
      <<12569, 1827, 5121, 1459, -50>>, <<234, 11047, 5695, 1466, -50>>, <<3598, 10975, 4115, 1473, -50>>,
      <<90, 2816, 460, 1480, -50>>, <<534, 16040, 11187, 1486, -50>>, <<666, 15040, 3601, 1493, -50>>,
      <<9819, 1962, 10537, 1499, -50>>, <<13323, 4464, 15673, 1505, -50>>, <<275, 13971, 2686, 1512, -50>>,
      <<16046, 5535, 4403, 1518, -50>>, <<3406, 6577, 4493, 1524, -50>>, <<8395, 1511, 3009, 1530, -50>>,
      <<0, 0, 0, 1536, -50>>, <<722, 6679, 11897, 1541, -50>>, <<7675, 7084, 5978, 1547, -50>>,
      <<2686, 2554, 15054, 1552, -50>>, <<9292, 12204, 6397, 1558, -50>>, <<13999, 9226, 12816, 1563, -50>>,
      <<5071, 4507, 1580, 1569, -50>>, <<1393, 15439, 5492, 1574, -50>>, <<7860, 1855, 8205, 1579, -50>>,
      <<14366, 14853, 9749, 1584, -50>>, <<10085, 1462, 10159, 1589, -50>>, <<4811, 2438, 9463, 1594, -50>>,
      <<4928, 5920, 7691, 1599, -50>>, <<12471, 14004, 4871, 1604, -50>>, <<8308, 10947, 1031, 1609, -50>>,
      <<3295, 13225, 12580, 1613, -50>>, <<4537, 4851, 6776, 1618, -50>>, <<15720, 3710, 26, 1623, -50>>,
      <<4302, 13159, 8737, 1627, -50>>, <<8645, 6341, 165, 1632, -50>>, <<12657, 8775, 7098, 1636, -50>>,
      <<13829, 671, 13174, 1640, -50>>, <<2090, 15822, 2027, 1645, -50>>, <<5557, 11082, 6447, 1649, -50>>,
      <<11937, 14348, 10067, 1653, -50>>, <<13645, 10361, 12906, 1657, -50>>, <<12397, 6706, 14981, 1661, -50>>,
      <<13104, 1483, 16309, 1665, -50>>, <<1877, 107, 522, 1670, -50>>, <<15528, 15696, 403, 1674, -50>>,
      <<14850, 3914, 15970, 1677, -50>>, <<9465, 10771, 14467, 1681, -50>>, <<12122, 9119, 12294, 1685, -50>>,
      <<5013, 13658, 9464, 1689, -50>>, <<1069, 15696, 5991, 1693, -50>>, <<3413, 16204, 1888, 1697, -50>>,
      <<9073, 9702, 13552, 1700, -50>>, <<5407, 900, 8227, 1704, -50>>, <<5030, 4940, 2308, 1708, -50>>,
      <<310, 14863, 12191, 1711, -50>>, <<12569, 1827, 5121, 1715, -50>>, <<809, 13627, 13874, 1718, -50>>,
      <<234, 11047, 5695, 1722, -50>>, <<8285, 15514, 13361, 1725, -50>>, <<3598, 10975, 4115, 1729, -50>>,
      <<7665, 9603, 10734, 1732, -50>>, <<90, 2816, 460, 1736, -50>>, <<5823, 10582, 6069, 1739, -50>>,
      <<534, 16040, 11187, 1742, -50>>, <<772, 14791, 15823, 1745, -50>>, <<666, 15040, 3601, 1749, -50>>,
      <<6413, 4958, 7298, 1752, -50>>, <<9819, 1962, 10537, 1755, -50>>, <<4046, 3683, 13326, 1758, -50>>,
      <<13323, 4464, 15673, 1761, -50>>, <<9827, 11860, 1201, 1765, -50>>, <<275, 13971, 2686, 1768, -50>>,
      <<7490, 12313, 3751, 1771, -50>>, <<16046, 5535, 4403, 1774, -50>>, <<40, 5895, 4648, 1777, -50>>,
      <<3406, 6577, 4493, 1780, -50>>, <<13610, 14553, 3944, 1783, -50>>, <<8395, 1511, 3009, 1786, -50>>,
      <<14406, 2235, 1692, 1789, -50>>, <<0, 0, 0, 1792, -50>>
    >>
Log2(n) ==
    The({[m |-> <<entry[1], entry[2], entry[3], entry[4]>>, e |-> entry[5]] :
           entry \in {Log2Table[n]}})

\* the ascending test with the second step forgotten: b === a + 1 alone
AscendingWindowsFirstStepOnly(password) ==
    {i \in 1..(Len(password) - 2) : password[i + 1] = password[i] + 1}

\* the windows i (1-based, of the length - 2 windows of three characters)
\* that pass the ascending test of main.js 354
AscendingWindows(password) ==
    {i \in 1..(Len(password) - 2) : /\ password[i + 1] = password[i] + 1
                                    /\ password[i + 2] = password[i + 1] + 1}

\* the windows that pass the descending test of main.js 356
DescendingWindows(password) ==
    {i \in 1..(Len(password) - 2) : /\ password[i + 1] = password[i] - 1
                                    /\ password[i + 2] = password[i + 1] - 1}

\* the loop of calculateSequencePenalty (main.js 349-358): the value of
\* sequences after the loop
SequenceCount(password) ==
    Cardinality(AscendingWindows(password)) + Cardinality(DescendingWindows(password))

\* the penalty without Math.min: sequences / total uncapped
calculateSequencePenaltyUncapped(password) ==
    IF Len(password) < 3 THEN [num |-> 0, den |-> 1]
    ELSE [num |-> SequenceCount(password), den |-> Len(password) - 2]

\* calculateSequencePenalty (main.js 345-360): the fraction num / den
calculateSequencePenalty(password) ==
    IF Len(password) < 3 THEN [num |-> 0, den |-> 1]
    ELSE LET sequences == SequenceCount(password)
             total     == Len(password) - 2
         IN  IF total > 0
             THEN IF 2 * sequences >= total
                  THEN [num |-> 1, den |-> 2]
                  ELSE [num |-> sequences, den |-> total]
             ELSE [num |-> 0, den |-> 1]

\* the four regular-expression tests of calculateDiversityBonus
ActiveTypes(password) ==
    (IF \E i \in 1..Len(password) : password[i] >= 97 /\ password[i] <= 122 THEN 1 ELSE 0)
    + (IF \E i \in 1..Len(password) : password[i] >= 65 /\ password[i] <= 90 THEN 1 ELSE 0)
    + (IF \E i \in 1..Len(password) : password[i] >= 48 /\ password[i] <= 57 THEN 1 ELSE 0)
    + (IF \E i \in 1..Len(password) :
            ~(\/ password[i] >= 97 /\ password[i] <= 122
              \/ password[i] >= 65 /\ password[i] <= 90
              \/ password[i] >= 48 /\ password[i] <= 57) THEN 1 ELSE 0)

\* the bonus with the length test of main.js 374 left out
calculateDiversityBonusIgnoringLength(password, length) ==
    LET activeTypes == ActiveTypes(password)
    IN  CASE activeTypes = 1 -> 0
          [] activeTypes = 2 -> 8
          [] activeTypes = 3 -> 18
          [] activeTypes = 4 -> 28
          [] OTHER -> 0

\* calculateDiversityBonus (main.js 365-377), in hundredths: 28 is 0.28
calculateDiversityBonus(password, length) ==
    LET activeTypes == ActiveTypes(password)
    IN  IF length < 8 THEN 0
        ELSE CASE activeTypes = 1 -> 0
               [] activeTypes = 2 -> 8
               [] activeTypes = 3 -> 18
               [] activeTypes = 4 -> 28
               [] OTHER -> 0

\* calculateEntropy (main.js 329-340)
calculateEntropy(password, characterSetSize) ==
    IF password = <<>> \/ characterSetSize = 0 THEN Zero
    ELSE LET basicEntropy    == Times(Number(Len(password)), Log2(characterSetSize))
             sequencePenalty == calculateSequencePenalty(password)
             diversityBonus  == calculateDiversityBonus(password, Len(password))
             adjustedEntropy ==
                 Times(Times(basicEntropy,
                             OneMinus(Ratio(sequencePenalty.num, sequencePenalty.den))),
                       OnePlus(Ratio(diversityBonus, 100)))
         IN  MathMax(Zero, adjustedEntropy)

\* determineSecurityLevel (main.js 382-389): the first level whose
\* interval holds the entropy, the fallback after the loop otherwise
LevelMatchesAboveMin(entropy, config) ==
    Less(config.min, entropy) /\ Less(entropy, config.max)

LevelMatches(entropy, config) ==
    ~Less(entropy, config.min) /\ Less(entropy, config.max)

determineSecurityLevel(entropy) ==
    The({IF \E i \in 1..Len(SECURITY_LEVELS) : LevelMatches(bits, SECURITY_LEVELS[i])
         THEN LET first == CHOOSE i \in 1..Len(SECURITY_LEVELS) :
                             /\ LevelMatches(bits, SECURITY_LEVELS[i])
                             /\ \A j \in 1..(i - 1) : ~LevelMatches(bits, SECURITY_LEVELS[j])
              IN  [level |-> SECURITY_LEVELS[first].level,
                   class |-> SECURITY_LEVELS[first].class,
                   fallback |-> FALSE]
         ELSE [level |-> "EXCELLENT", class |-> "excellent", fallback |-> TRUE] :
           bits \in {entropy}})

\* attackSpeeds.dedicated (main.js 399)
ATTACK_SPEED == 1000000000

\* secondsTocrack = Math.pow(2, entropy) / (2 * attackSpeed) (main.js 407-410)
SecondsToCrack(entropy) ==
    The({Over(combinations, 2 * ATTACK_SPEED) : combinations \in {Pow2(entropy)}})

\* the seconds in a minute, an hour, a day and a year of formatTimeEstimate
MINUTE == 60
HOUR == 3600
DAY == 86400
YEAR == 31536000

\* the formatting with <= for < in the test against 60 seconds
formatTimeEstimateMinuteInclusive(seconds) ==
    The({IF Less(secs, Number(1)) THEN [unit |-> "Instantaneo", value |-> 0]
         ELSE IF ~Less(Number(MINUTE), secs)
         THEN [unit |-> "segundos", value |-> MathRound(secs)]
         ELSE IF Less(secs, Number(HOUR))
         THEN [unit |-> "minutos", value |-> MathRound(Over(secs, MINUTE))]
         ELSE IF Less(secs, Number(DAY))
         THEN [unit |-> "horas", value |-> MathRound(Over(secs, HOUR))]
         ELSE IF Less(secs, Number(YEAR))
         THEN [unit |-> "dias", value |-> MathRound(Over(secs, DAY))]
         ELSE IF Less(secs, Times(Number(YEAR), Number(1000)))
         THEN [unit |-> "anos", value |-> MathRound(Over(secs, YEAR))]
         ELSE The({IF Less(years, Number(1000000))
                   THEN [unit |-> "anos (toLocaleString)", value |-> MathRound(years)]
                   ELSE IF Less(years, Number(1000000000))
                   THEN [unit |-> "millones de anos",
                         value |-> MathRound(Over(years, 1000000))]
                   ELSE IF Less(years, Times(Number(1000000), Number(1000000)))
                   THEN [unit |-> "billones de anos",
                         value |-> MathRound(Over(years, 1000000000))]
                   ELSE [unit |-> "Mas que la edad del universo", value |-> 0] :
                     years \in {Over(secs, YEAR)}}) :
           secs \in {seconds}})

\* formatTimeEstimate (main.js 418-432): the unit and the rounded number
formatTimeEstimate(seconds) ==
    The({IF Less(secs, Number(1)) THEN [unit |-> "Instantaneo", value |-> 0]
         ELSE IF Less(secs, Number(MINUTE))
         THEN [unit |-> "segundos", value |-> MathRound(secs)]
         ELSE IF Less(secs, Number(HOUR))
         THEN [unit |-> "minutos", value |-> MathRound(Over(secs, MINUTE))]
         ELSE IF Less(secs, Number(DAY))
         THEN [unit |-> "horas", value |-> MathRound(Over(secs, HOUR))]
         ELSE IF Less(secs, Number(YEAR))
         THEN [unit |-> "dias", value |-> MathRound(Over(secs, DAY))]
         ELSE IF Less(secs, Times(Number(YEAR), Number(1000)))
         THEN [unit |-> "anos", value |-> MathRound(Over(secs, YEAR))]
         ELSE The({IF Less(years, Number(1000000))
                   THEN [unit |-> "anos (toLocaleString)", value |-> MathRound(years)]
                   ELSE IF Less(years, Number(1000000000))
                   THEN [unit |-> "millones de anos",
                         value |-> MathRound(Over(years, 1000000))]
                   ELSE IF Less(years, Times(Number(1000000), Number(1000000)))
                   THEN [unit |-> "billones de anos",
                         value |-> MathRound(Over(years, 1000000000))]
                   ELSE [unit |-> "Mas que la edad del universo", value |-> 0] :
                     years \in {Over(secs, YEAR)}}) :
           secs \in {seconds}})

\* estimateCrackTime (main.js 395-413)
estimateCrackTime(entropy) == formatTimeEstimate(SecondsToCrack(entropy))

\* the recommendations array of provideFeedback (main.js 506-526); each
\* message is named by its rule
Recommendations(st, securityLevel, passwordLength, isCommon) ==
    (IF passwordLength < RECOMMENDED_MIN_LENGTH THEN <<"LENGTH">> ELSE <<>>)
    \o (IF securityLevel.level = "WEAK" \/ securityLevel.level = "VERY_WEAK"
        THEN <<"VULNERABLE">> ELSE <<>>)
    \o (IF ~st.includeSymbols /\ passwordLength < 16 THEN <<"SYMBOLS">> ELSE <<>>)
    \o (IF st.excludeAmbiguous /\ passwordLength < 14 THEN <<"AMBIGUOUS">> ELSE <<>>)
    \o (IF isCommon THEN <<"COMMON">> ELSE <<>>)

\* securityLevel.level.includes('WEAK') ? 'warning' : 'info' (main.js 530)
FeedbackType(securityLevel) ==
    IF securityLevel.level \in {"WEAK", "VERY_WEAK"} THEN "warning" ELSE "info"

\* the report with Math.max in place of Math.min in the cap of a common
\* password
SecurityReportCapWithMax(st, password, characterSetSize) ==
    LET isCommon        == isCommonPassword(password)
        commonPenalty   == IF isCommon THEN Ratio(5, 10) ELSE Zero
        keyboardPenalty == Ratio(calculateKeyboardPatternPenalty(password), 10)
    IN  The({The({The({[entropy         |-> entropy,
                        adjustedEntropy |-> adjustedEntropy,
                        securityLevel   |-> securityLevel,
                        crackTime       |-> estimateCrackTime(adjustedEntropy),
                        isCommon        |-> isCommon,
                        recommendations |-> Recommendations(st, securityLevel,
                                                            Len(password), isCommon)] :
                         securityLevel \in {determineSecurityLevel(adjustedEntropy)}}) :
                    adjustedEntropy \in
                        {IF isCommon
                         THEN MathMax(Times(Times(entropy, OneMinus(commonPenalty)),
                                            OneMinus(keyboardPenalty)), Number(10))
                         ELSE Times(Times(entropy, OneMinus(commonPenalty)),
                                    OneMinus(keyboardPenalty))}}) :
               entropy \in {calculateEntropy(password, characterSetSize)}})

\* the values evaluatePasswordSecurity (main.js 275-302) computes and
\* hands to the meter, the details and the feedback
SecurityReport(st, password, characterSetSize) ==
    LET isCommon        == isCommonPassword(password)
        commonPenalty   == IF isCommon THEN Ratio(5, 10) ELSE Zero
        keyboardPenalty == Ratio(calculateKeyboardPatternPenalty(password), 10)
    IN  The({The({The({[entropy         |-> entropy,
                        adjustedEntropy |-> adjustedEntropy,
                        securityLevel   |-> securityLevel,
                        crackTime       |-> estimateCrackTime(adjustedEntropy),
                        isCommon        |-> isCommon,
                        recommendations |-> Recommendations(st, securityLevel,
                                                            Len(password), isCommon)] :
                         securityLevel \in {determineSecurityLevel(adjustedEntropy)}}) :
                    adjustedEntropy \in
                        {IF isCommon
                         THEN MathMin(Times(Times(entropy, OneMinus(commonPenalty)),
                                            OneMinus(keyboardPenalty)), Number(10))
                         ELSE Times(Times(entropy, OneMinus(commonPenalty)),
                                    OneMinus(keyboardPenalty))}}) :
               entropy \in {calculateEntropy(password, characterSetSize)}})

(***************************************************************************)
(* The controller: state, the DOM elements it writes, timers, microtasks.  *)
(***************************************************************************)
VARIABLES
    page,                \* "loading", "ready", "incompatible" or "initError"
    crypto,              \* the host's global crypto object, see CryptoStates
    state,               \* this.state (main.js 97-106)
    elements,            \* values written to this.elements, feedback apart
    feedback,            \* this.elements.feedback: textContent, type, show
    hideTimers,          \* pending auto-hide timers of showFeedback
    autoGenerateTimeout, \* this.autoGenerateTimeout: "null" or "id"
    autoGenPending,      \* auto-generate timers set and neither fired nor cleared
    microtasks,          \* generatePassword calls waiting at their await, oldest first
    scriptCalls,         \* calls the running script made while a generation waits
    lastGeneration,      \* what the last step of a generatePassword call did
    lastEval,            \* what the last evaluatePasswordSecurity call computed
    lastFormat,          \* what the last formatTimeEstimate call was given and returned
    copyBtn,             \* this.elements.copyBtn: success-flash and its pending timers
    clipboardWrites,     \* copyPasswordToClipboard calls waiting at their await
    lastDestroy,         \* what the last destroy call found and left
    burst                \* slider and checkbox changes since one found no timer pending

vars == <<page, crypto, state, elements, feedback, hideTimers, autoGenerateTimeout,
          autoGenPending, microtasks, scriptCalls, lastGeneration, lastEval, lastFormat,
          copyBtn, clipboardWrites, lastDestroy, burst>>

\* the host's global crypto object, as the code tests it (main.js 222, 849):
\* present with getRandomValues, present without it, or not declared at all
CryptoStates == {"available", "noGetRandomValues", "undeclared"}

CheckboxIds == {"includeUppercase", "includeLowercase", "includeNumbers",
                "includeSymbols", "excludeAmbiguous"}

\* the values the length slider delivers
SliderValues ==
    ((MIN_LENGTH - 1)..(MIN_LENGTH + LengthSpread))
    \cup {8, DEFAULT_LENGTH}
    \cup ((MAX_LENGTH - LengthSpread)..(MAX_LENGTH + 1))

NoLevel == [level |-> "", class |-> "", fallback |-> FALSE]
NoReport ==
    [entropy |-> Zero, adjustedEntropy |-> Zero, securityLevel |-> NoLevel,
     crackTime |-> [unit |-> "", value |-> 0], isCommon |-> FALSE,
     recommendations |-> <<>>]

Message(msg) == [msg |-> msg, recs |-> <<>>]

\* showFeedback (main.js 538-548): the message is shown and one more
\* auto-hide timer is pending; fb is [feedback, hideTimers]
showFeedback(fb, message, type) ==
    [feedback   |-> [textContent |-> message, type |-> type, show |-> TRUE],
     hideTimers |-> fb.hideTimers + 1]

\* clearFeedback (main.js 553-555)
clearFeedback(fb) ==
    [fb EXCEPT !.feedback.show = FALSE]

\* destroy with the clearTimeout left out
destroyWithoutClearTimeout(st, timeout, pending) ==
    [state          |-> [st EXCEPT !.currentPassword = <<>>],
     autoGenPending |-> pending]

\* destroy (main.js 797-807) on the state st, this.autoGenerateTimeout and
\* the auto-generate timers pending
destroy(st, timeout, pending) ==
    [state          |-> [st EXCEPT !.currentPassword = <<>>],
     autoGenPending |-> IF timeout # "null" THEN 0 ELSE pending]

\* showCopySuccess (main.js 722-730) on the feedback fb and the copy
\* button btn
showCopySuccess(fb, btn) ==
    [fb      |-> showFeedback(fb, Message("COPIED"), "success"),
     copyBtn |-> [flash |-> TRUE, timers |-> btn.timers + 1]]

\* fallbackCopyToClipboard (main.js 694-717); execCommand is what
\* document.execCommand('copy') does: "copied" for true, "failed" for
\* false or an exception
fallbackCopyToClipboard(fb, btn, execCommand) ==
    IF execCommand = "copied"
    THEN showCopySuccess(fb, btn)
    ELSE [fb |-> showFeedback(fb, Message("COPY_ERROR"), "error"), copyBtn |-> btn]

\* what the host offers for copying (main.js 678): navigator.clipboard
\* with writeText, or only document.execCommand, which copies or fails
Clipboards == {"writeText", "execCommand", "execCommandFails"}

\* copyPasswordToClipboard up to its await (main.js 670-684): without a
\* password the warning; with navigator.clipboard.writeText the call of it,
\* after which the method waits and nothing has changed; without it the
\* fallback, which runs to its end.  writes are the calls that wait
copyPasswordToClipboard(st, fb, btn, writes, clipboard) ==
    IF st.currentPassword = <<>>
    THEN [fb |-> showFeedback(fb, Message("No hay contrasena para copiar"), "warning"),
          copyBtn |-> btn, clipboardWrites |-> writes]
    ELSE IF clipboard = "writeText"
    THEN [fb |-> fb, copyBtn |-> btn, clipboardWrites |-> writes + 1]
    ELSE The({[fb |-> copied.fb, copyBtn |-> copied.copyBtn, clipboardWrites |-> writes] :
                copied \in {fallbackCopyToClipboard(
                               fb, btn, IF clipboard = "execCommand" THEN "copied"
                                        ELSE "failed")}})

\* copyPasswordToClipboard after its await (main.js 679-688): the promise
\* of writeText was fulfilled ("written") or rejected; the continuation
\* reads nothing of this.state
copyPasswordToClipboardAfterAwait(fb, btn, result) ==
    IF result = "written"
    THEN showCopySuccess(fb, btn)
    ELSE [fb |-> showFeedback(fb, Message("COPY_ERROR"), "error"), copyBtn |-> btn]

\* togglePasswordVisibility (main.js 735-752) on this.state and the
\* elements: the flag is inverted, and the type of the password field and
\* the label of the button follow it
togglePasswordVisibility(st, el) ==
    IF ~st.isPasswordVisible
    THEN [state    |-> [st EXCEPT !.isPasswordVisible = TRUE],
          elements |-> [el EXCEPT !.generatedPasswordType = "text",
                                  !.toggleVisibilityText = "see-no-evil monkey",
                                  !.toggleVisibilityTitle = "Ocultar contrasena",
                                  !.toggleVisibilityAriaLabel = "Ocultar contrasena"]]
    ELSE [state    |-> [st EXCEPT !.isPasswordVisible = FALSE],
          elements |-> [el EXCEPT !.generatedPasswordType = "password",
                                  !.toggleVisibilityText = "eye",
                                  !.toggleVisibilityTitle = "Mostrar contrasena",
                                  !.toggleVisibilityAriaLabel = "Mostrar contrasena"]]

\* validateConfiguration without its check of the length
validateConfigurationWithoutLength(st, fb) ==
    IF ~(st.includeUppercase \/ st.includeLowercase \/ st.includeNumbers \/ st.includeSymbols)
    THEN [ok |-> FALSE, fb |-> showFeedback(fb, Message("NO_CHARACTERS"), "error")]
    ELSE [ok |-> TRUE, fb |-> fb]

\* validateConfiguration (main.js 772-792): the result and the feedback
validateConfiguration(st, fb) ==
    LET hasAnyCharacterType ==
            \/ st.includeUppercase
            \/ st.includeLowercase
            \/ st.includeNumbers
            \/ st.includeSymbols
    IN  IF ~hasAnyCharacterType
        THEN [ok |-> FALSE, fb |-> showFeedback(fb, Message("NO_CHARACTERS"), "error")]
        ELSE IF st.length < MIN_LENGTH \/ st.length > MAX_LENGTH
        THEN [ok |-> FALSE, fb |-> showFeedback(fb, Message("LENGTH_RANGE"), "error")]
        ELSE [ok |-> TRUE, fb |-> fb]

\* randomBytes[i] % characterSet.length for the Uint32 value r (main.js 235)
Uint32Mod(r, n) == (((r.hi % n) * (65536 % n)) + (r.lo % n)) % n

\* generateSecurePassword with a conversion loop that stops one index early
generateSecurePasswordOneShort(characterSet, length, cr, randomValues) ==
    IF cr = "undeclared"
    THEN [thrown |-> TRUE, source |-> "none", drawn |-> 0, password |-> <<>>]
    ELSE [thrown   |-> FALSE,
          source   |-> IF cr = "available" THEN "crypto.getRandomValues"
                                           ELSE "Math.random",
          drawn    |-> length,
          password |-> [i \in 1..(length - 1) |->
                          characterSet[Uint32Mod(randomValues[i], Len(characterSet)) + 1]]]

\* generateSecurePassword (main.js 215-240): the source of the random
\* values and the password, or the exception of reading an undeclared
\* crypto; randomValues are the values the source delivers
generateSecurePassword(characterSet, length, cr, randomValues) ==
    IF cr = "undeclared"
    THEN [thrown |-> TRUE, source |-> "none", drawn |-> 0, password |-> <<>>]
    ELSE [thrown   |-> FALSE,
          source   |-> IF cr = "available" THEN "crypto.getRandomValues"
                                               ELSE "Math.random",
          drawn    |-> length,
          password |-> [i \in 1..length |->
                          characterSet[Uint32Mod(randomValues[i], Len(characterSet)) + 1]]]

\* updatePasswordDisplay (main.js 443-453)
updatePasswordDisplay(el, password) ==
    [el EXCEPT !.generatedPassword = password,
               !.copyBtnDisabled = FALSE,
               !.toggleVisibilityDisabled = FALSE]

\* updateSecurityMeter and updateSecurityDetails (main.js 458-496):
\* aria-valuenow is Math.round(Math.min((entropy / 150) * 100, 100)) and
\* the entropy text is entropy.toFixed(1), held as the number of tenths
updateSecurityIndicators(el, report) ==
    [el EXCEPT !.strengthClass = report.securityLevel.class,
               !.strengthText = report.securityLevel.level,
               !.ariaValueNow =
                   MathRound(MathMin(Times(Over(report.adjustedEntropy, 150), Number(100)),
                                     Number(100))),
               !.entropyValue = ToFixed1(report.adjustedEntropy),
               !.crackTimeValue = report.crackTime]

\* provideFeedback (main.js 501-533)
provideFeedback(fb, report) ==
    LET cleared == clearFeedback(fb)
    IN  IF Len(report.recommendations) > 0
        THEN showFeedback(cleared,
                          [msg |-> "RECOMMENDATIONS", recs |-> report.recommendations],
                          FeedbackType(report.securityLevel))
        ELSE cleared

\* evaluatePasswordSecurity (main.js 275-302) on the controller w =
\* [state, elements, fb, lastEval, gen, microtasks]
evaluatePasswordSecurity(w, password, characterSetSize) ==
    The({[w EXCEPT !.elements = updateSecurityIndicators(w.elements, report),
                   !.fb = provideFeedback(w.fb, report),
                   !.lastEval = [password |-> password,
                                 characterSetSize |-> characterSetSize,
                                 report |-> report]] :
           report \in {SecurityReport(w.state, password, characterSetSize)}})

\* the record of one step of a generatePassword call: how it ended or
\* that it waits ("pending"), whether validation passed, the state of
\* crypto it met, the source and number of the random values drawn, the
\* character set built and the length asked
Generation(outcome, valid, cr, source, drawn, pool, length) ==
    [outcome |-> outcome, valid |-> valid, crypto |-> cr,
     source |-> source, drawn |-> drawn, pool |-> pool, length |-> length]

\* generatePassword (main.js 173-189) up to its await, on the controller
\* w: validation, the character set, and the body of
\* generateSecurePassword, which runs in the call and settles the promise
\* awaited; the rest of the function is queued as a microtask.  scripted
\* tells that the caller is a script, which runs on after the call
generatePassword(w, cr, randomValues, scripted) ==
    LET valid == validateConfiguration(w.state, w.fb)
        availableChars == buildCharacterSet(w.state)
        settled == generateSecurePassword(availableChars, w.state.length, cr, randomValues)
    IN  IF ~valid.ok
        THEN [w EXCEPT !.fb = valid.fb,
                       !.gen = Generation("invalid", FALSE, cr, "none", 0, <<>>,
                                          w.state.length)]
        ELSE IF Len(availableChars) = 0
        THEN [w EXCEPT !.fb = showFeedback(w.fb, Message("NO_CHARACTERS"), "error"),
                       !.gen = Generation("emptyPool", TRUE, cr, "none", 0,
                                          availableChars, w.state.length)]
        ELSE [w EXCEPT !.microtasks =
                           Append(@, [settled |-> settled, pool |-> availableChars,
                                      length |-> w.state.length, crypto |-> cr,
                                      scripted |-> scripted]),
                       !.gen = Generation("pending", TRUE, cr, settled.source,
                                          settled.drawn, availableChars, w.state.length)]

\* generatePassword (main.js 189-208) from its await on, on the controller
\* w: the catch block when the promise was rejected, otherwise the
\* password is stored, displayed and evaluated and the feedback cleared
generatePasswordAfterAwait(w, task) ==
    IF task.settled.thrown
    THEN [w EXCEPT !.fb = showFeedback(w.fb, Message("GENERATION_ERROR"), "error"),
                   !.gen = Generation("error", TRUE, task.crypto, "none", 0,
                                      task.pool, task.length)]
    ELSE [evaluatePasswordSecurity(
              [w EXCEPT !.state.currentPassword = task.settled.password,
                        !.elements = updatePasswordDisplay(w.elements,
                                                           task.settled.password)],
              task.settled.password, Len(task.pool))
            EXCEPT !.fb = clearFeedback(@),
                   !.gen = Generation("generated", TRUE, task.crypto,
                                      task.settled.source, task.settled.drawn,
                                      task.pool, task.length)]

(***************************************************************************)
(* Inputs of the model.                                                    *)
(***************************************************************************)
\* the k-th offered run of random values: Uint32 values from a start that
\* depends on k, advancing by a stride that depends on k; the first run
\* starts at 2^32 - 3 and passes through 2^32 - 1
Strides == <<7, 1, 13, 3>>
SeedValues(k, length) ==
    [i \in 1..length |->
        LET stride == Strides[((k - 1) % Len(Strides)) + 1]
            steps  == (i - 1) * stride
        IN  [hi |-> (65536 - k) % 65536,
             lo |-> IF k = 1 /\ i <= 3 THEN 65532 + i
                    ELSE (k * 4099 + steps) % 65536]]

IndexOf(s, c) == CHOOSE i \in 1..Len(s) : s[i] = c

\* words the random source may happen to spell
SpelledWords ==
    {Str(<<"p", "a", "s", "s", "w", "o", "r", "d">>),
     Str(<<"p", "a", "s", "s">>)}

\* random values that make the generator spell word from pool
SpellingValues(word, pool) ==
    [i \in 1..Len(word) |-> [hi |-> 0, lo |-> IndexOf(pool, word[i]) - 1]]

\* the runs of random values offered to a generation under configuration st
RandomValues(st) ==
    LET pool   == buildCharacterSet(st)
        length == IF st.length >= 0 THEN st.length ELSE 0
    IN  {SeedValues(k, length) : k \in 1..MaxSeed}
        \cup {SpellingValues(word, pool) :
                word \in {wd \in SpelledWords :
                            Len(wd) = length /\ CharsOf(wd) \subseteq CharsOf(pool)}}

\* passwords and character-set sizes handed to a direct evaluation
Repeat(word, n) == [i \in 1..(n * Len(word)) |-> word[((i - 1) % Len(word)) + 1]]
EvalPasswords ==
    {<<>>,
     Str(<<"p", "a", "s", "s", "w", "o", "r", "d">>),
     Str(<<"P", "A", "S", "S", "W", "O", "R", "D">>),
     Str(<<"P", "a", "s", "s", "w", "0", "r", "d">>),
     Str(<<"1", "2", "3", "4", "5", "6">>),
     Str(<<"A", "b", "1", "!">>),
     Str(<<"a", "b", "c", "X", "Y", "Z", "9", "9", "9">>),
     Str(<<"a", "a", "a", "k", "q", "t", "x", "m">>),
     Str(<<"a", "b">>),
     Str(<<"k", "q", "c", "b", "a", "7", "x", "m">>),
     Str(<<"Q", "w", "E", "r", "T", "y", "7", "k">>),
     Str(<<"k", "T", "7", "#", "m", "Q", "2", "$", "x", "R", "9", "!", "b", "W", "4", "&">>)}
EvalSizes == {26, 88}
\* passwords of one class whose entropy for 32 characters (5 bits each) is
\* a multiple of 25 bits
BoundaryPasswords == {Repeat(Str(<<"k", "q", "t", "x", "m">>), n) : n \in 1..5}
EvalCases ==
    (EvalPasswords \X EvalSizes)
    \cup ({<<>>, Str(<<"a", "b">>), Str(<<"p", "a", "s", "s", "w", "o", "r", "d">>)}
             \X {0, 1})
    \cup (BoundaryPasswords \X {32, 31})

\* a number of years as a number of seconds
Years(n) == Times(Number(YEAR), n)

\* the numbers of seconds handed to formatTimeEstimate: each threshold of
\* main.js 419-429, the largest Number below it and some value between
FormatThresholds ==
    {Number(1), Number(MINUTE), Number(HOUR), Number(DAY), Number(YEAR),
     Years(Number(1000)), Years(Number(1000000)), Years(Number(1000000000)),
     Years(Times(Number(1000000), Number(1000000)))}
FormatInputs ==
    FormatThresholds
    \cup {Below(threshold) : threshold \in FormatThresholds}
    \cup {Zero, Number(59), Ratio(119, 2), Infinity}

\* no formatTimeEstimate call of a caller yet
NoFormat == [seconds |-> Zero, text |-> [unit |-> "", value |-> 0]]

\* no destroy call yet
NoDestroy == [ran |-> FALSE, pendingBefore |-> 0, pendingAfter |-> 0,
              currentPassword |-> <<>>]

\* the values of the DOM controls when the page loads: the defaults, or
\* what the browser restored from the previous visit
DefaultControls ==
    [length           |-> DEFAULT_LENGTH,
     includeUppercase |-> TRUE,
     includeLowercase |-> TRUE,
     includeNumbers   |-> TRUE,
     includeSymbols   |-> TRUE,
     excludeAmbiguous |-> FALSE]
RestoredControls ==
    [length           : SliderValues,
     includeUppercase : BOOLEAN,
     includeLowercase : BOOLEAN,
     includeNumbers   : BOOLEAN,
     includeSymbols   : BOOLEAN,
     excludeAmbiguous : BOOLEAN]

\* the controls at the page loads under which passwords are evaluated
EvalControls ==
    {DefaultControls,
     [DefaultControls EXCEPT !.includeSymbols = FALSE, !.excludeAmbiguous = TRUE]}

\* the values the slider delivers while the user drags it in a session
SessionSliderValues == {MIN_LENGTH - 1, DEFAULT_LENGTH, MAX_LENGTH + 1}

\* the checkbox and the value of its checked property that the 'change'
\* events of a session deliver: the user unticks any checkbox, ticked or
\* not, ticks the exclusion of the ambiguous characters and ticks the
\* symbols again
SessionCheckboxChanges ==
    (CheckboxIds \X {FALSE})
    \cup {<<"excludeAmbiguous", TRUE>>, <<"includeSymbols", TRUE>>}

(***************************************************************************)
(* Initial state: the page is loading, nothing is constructed yet.         *)
(***************************************************************************)
DefaultState ==
    [length           |-> DEFAULT_LENGTH,
     includeUppercase |-> TRUE,
     includeLowercase |-> TRUE,
     includeNumbers   |-> TRUE,
     includeSymbols   |-> TRUE,
     excludeAmbiguous |-> FALSE,
     currentPassword  |-> <<>>,
     isPasswordVisible |-> FALSE]

\* the elements as the document delivers them; the type of the password
\* field and the label of the visibility button are those of the markup
\* ("") until togglePasswordVisibility writes them
InitialElements ==
    [lengthValue              |-> DEFAULT_LENGTH,
     generatedPassword        |-> <<>>,
     copyBtnDisabled          |-> TRUE,
     toggleVisibilityDisabled |-> TRUE,
     generatedPasswordType    |-> "",
     toggleVisibilityText     |-> "",
     toggleVisibilityTitle    |-> "",
     toggleVisibilityAriaLabel |-> "",
     strengthClass            |-> "",
     strengthText             |-> "",
     ariaValueNow             |-> 0,
     entropyValue             |-> 0,
     crackTimeValue           |-> [unit |-> "", value |-> 0]]

NoGeneration ==
    [outcome |-> "none", valid |-> FALSE, crypto |-> "",
     source |-> "none", drawn |-> 0, pool |-> <<>>, length |-> 0]

Init ==
    /\ page = "loading"
    /\ crypto \in CryptoStates
    /\ state = DefaultState
    /\ elements = InitialElements
    /\ feedback = [textContent |-> Message(""), type |-> "", show |-> FALSE]
    /\ hideTimers = 0
    /\ autoGenerateTimeout = "null"
    /\ autoGenPending = 0
    /\ microtasks = <<>>
    /\ scriptCalls = 0
    /\ lastGeneration = NoGeneration
    /\ lastEval = [password |-> <<>>, characterSetSize |-> 0,
                   report |-> NoReport]
    /\ lastFormat = NoFormat
    /\ copyBtn = [flash |-> FALSE, timers |-> 0]
    /\ clipboardWrites = 0
    /\ lastDestroy = NoDestroy
    /\ burst = "none"

(***************************************************************************)
(* Actions.                                                                *)
(***************************************************************************)
\* the controller as one record, and its write-back to the variables
World == [state |-> state, elements |-> elements,
          fb |-> [feedback |-> feedback, hideTimers |-> hideTimers],
          lastEval |-> lastEval, gen |-> lastGeneration, microtasks |-> microtasks]

Becomes(w) ==
    \E next \in {w} :
        /\ state' = next.state
        /\ elements' = next.elements
        /\ feedback' = next.fb.feedback
        /\ hideTimers' = next.fb.hideTimers
        /\ lastEval' = next.lastEval
        /\ lastGeneration' = next.gen
        /\ microtasks' = next.microtasks

\* no generation waits at its await: the browser runs timers and
\* dispatches events only then, after the microtasks
Idle == microtasks = <<>>

\* the generations that wait were all called by a script that still runs
ScriptRuns == ~Idle /\ \A i \in 1..Len(microtasks) : microtasks[i].scripted

\* a listener or a method can be entered: from the browser or a caller
\* when nothing waits, or from the script that runs
Callable == Idle \/ (ScriptRuns /\ scriptCalls < MaxScriptCalls)

\* the calls of the running script, this one counted
Called == scriptCalls' = IF Idle THEN 0 ELSE scriptCalls + 1

\* who dispatches an event: the browser on a user's action, or a script
\* (element.click(), dispatchEvent, a call of the method)
Dispatchers == {"browser", "script"}

\* one more message with its auto-hide timer fits the bound, the messages
\* of the generations and of the copies that wait counted
FeedbackFits(bound) == hideTimers + Len(microtasks) + clipboardWrites < bound

\* checkBrowserCompatibility (main.js 845-862): TRUE, FALSE, or the
\* ReferenceError of reading an undeclared crypto
checkBrowserCompatibility(cr) ==
    CASE cr = "available" -> "true"
      [] cr = "noGetRandomValues" -> "false"
      [] OTHER -> "throws"

\* updateStateFromUI (main.js 757-767) on the controller w; controls are
\* the values of the slider and of the checkboxes in the DOM
updateStateFromUI(w, controls) ==
    [w EXCEPT !.state.length = controls.length,
              !.state.includeUppercase = controls.includeUppercase,
              !.state.includeLowercase = controls.includeLowercase,
              !.state.includeNumbers = controls.includeNumbers,
              !.state.includeSymbols = controls.includeSymbols,
              !.state.excludeAmbiguous = controls.excludeAmbiguous,
              !.elements.lengthValue = controls.length]

\* initializePasswordGenerator (main.js 820-840) with the constructor
\* (main.js 92-119) and initialize (main.js 155-161), whose
\* generatePassword call waits at its await while the rest runs
InitializePasswordGenerator(controls) ==
    /\ page = "loading"
    /\ Idle
    /\ LET compatible == checkBrowserCompatibility(crypto)
           constructed == updateStateFromUI(World, controls)
       IN  IF compatible = "true"
           THEN \E rv \in RandomValues(constructed.state) :
                    /\ page' = "ready"
                    /\ Becomes(generatePassword(constructed, crypto, rv, FALSE))
           ELSE /\ page' = IF compatible = "false" THEN "incompatible" ELSE "initError"
                /\ UNCHANGED <<state, elements, feedback, hideTimers, microtasks,
                               lastGeneration, lastEval>>
    /\ UNCHANGED <<clipboardWrites, lastDestroy, copyBtn, lastFormat, crypto, autoGenerateTimeout,
                   autoGenPending, scriptCalls,
                   burst>>

\* the continuation of the oldest waiting generatePassword call runs
\* (main.js 189-208); the script that called it has ended by then
GenerationResumes ==
    /\ ~Idle
    /\ Becomes(generatePasswordAfterAwait(
                   [World EXCEPT !.microtasks =
                       [i \in 1..(Len(microtasks) - 1) |->
                           [microtasks[i + 1] EXCEPT !.scripted = FALSE]]],
                   Head(microtasks)))
    /\ scriptCalls' = 0
    /\ UNCHANGED <<clipboardWrites, lastDestroy, copyBtn, lastFormat, page, crypto, autoGenerateTimeout,
                   autoGenPending,
                   burst>>

\* the changes of a burst, counted as far as it matters: none, one, several
OneMore(changes) == IF changes = "none" THEN "one" ELSE "several"

\* the scheduling without the clearTimeout of the timer set before
scheduleAutoGenerateWithoutClear ==
    /\ autoGenerateTimeout' = "id"
    /\ autoGenPending' = autoGenPending + 1
    /\ burst' = IF autoGenPending > 0 THEN OneMore(burst) ELSE "one"

\* scheduleAutoGenerate (main.js 623-633)
scheduleAutoGenerate ==
    /\ autoGenerateTimeout' = "id"
    /\ autoGenPending' = (IF autoGenerateTimeout # "null" THEN 0 ELSE autoGenPending) + 1
    /\ burst' = IF autoGenPending > 0 THEN OneMore(burst) ELSE "one"

\* the 'input' listener of the length slider (main.js 568-572)
LengthSliderInput(value) ==
    /\ page = "ready"
    /\ Callable
    /\ state' = [state EXCEPT !.length = value]
    /\ elements' = [elements EXCEPT !.lengthValue = value]
    /\ scheduleAutoGenerate
    /\ Called
    /\ UNCHANGED <<clipboardWrites, lastDestroy, copyBtn, lastFormat, page, crypto, feedback, hideTimers,
                   microtasks, lastGeneration, lastEval>>

\* the 'change' listener of a checkbox (main.js 580-585)
CheckboxChange(id, checked) ==
    /\ page = "ready"
    /\ Callable
    /\ state' = [state EXCEPT ![id] = checked]
    /\ scheduleAutoGenerate
    /\ Called
    /\ UNCHANGED <<clipboardWrites, lastDestroy, copyBtn, lastFormat, page, crypto, elements, feedback,
                   hideTimers, microtasks, lastGeneration, lastEval>>

\* the callback of the auto-generate timer (main.js 630-632)
AutoGenerateTimerFires ==
    /\ page = "ready"
    /\ Idle
    /\ autoGenPending > 0
    /\ FeedbackFits(MaxHideTimers)
    /\ autoGenPending' = autoGenPending - 1
    /\ \E rv \in RandomValues(state) : Becomes(generatePassword(World, crypto, rv, FALSE))
    /\ UNCHANGED <<clipboardWrites, lastDestroy, copyBtn, lastFormat, page, crypto, autoGenerateTimeout,
                   scriptCalls,
                   burst>>

\* the 'click' listener of the generate button (main.js 588-590)
GenerateBtnClick(dispatcher) ==
    /\ page = "ready"
    /\ Callable
    /\ ~Idle => dispatcher = "script"
    /\ FeedbackFits(MaxHideTimers)
    /\ \E rv \in RandomValues(state) :
           Becomes(generatePassword(World, crypto, rv, dispatcher = "script"))
    /\ Called
    /\ UNCHANGED <<clipboardWrites, lastDestroy, copyBtn, lastFormat, page, crypto, autoGenerateTimeout,
                   autoGenPending,
                   burst>>

\* the 'submit' listener of the form (main.js 613-616)
FormSubmit(dispatcher) ==
    /\ page = "ready"
    /\ Callable
    /\ ~Idle => dispatcher = "script"
    /\ FeedbackFits(MaxHideTimers)
    /\ \E rv \in RandomValues(state) :
           Becomes(generatePassword(World, crypto, rv, dispatcher = "script"))
    /\ Called
    /\ UNCHANGED <<clipboardWrites, lastDestroy, copyBtn, lastFormat, page, crypto, autoGenerateTimeout,
                   autoGenPending,
                   burst>>

\* the callback of an auto-hide timer of showFeedback (main.js 545-547)
FeedbackHideTimerFires ==
    /\ Idle
    /\ hideTimers > 0
    /\ hideTimers' = hideTimers - 1
    /\ feedback' = [feedback EXCEPT !.show = FALSE]
    /\ UNCHANGED <<clipboardWrites, lastDestroy, copyBtn, lastFormat, page, crypto, state, elements,
                   autoGenerateTimeout, autoGenPending, microtasks, scriptCalls,
                   lastGeneration, lastEval,
                   burst>>

\* the 'error' listener of the window (main.js 868-878), installed by
\* setupGlobalErrorHandling once window.passwordGenerator is set
WindowError ==
    /\ page = "ready"
    /\ Callable
    /\ FeedbackFits(MaxHideTimers)
    /\ LET shown == showFeedback([feedback |-> feedback, hideTimers |-> hideTimers],
                                 Message("UNEXPECTED_ERROR"), "error")
       IN  /\ feedback' = shown.feedback
           /\ hideTimers' = shown.hideTimers
    /\ Called
    /\ UNCHANGED <<clipboardWrites, lastDestroy, copyBtn, lastFormat, page, crypto, state, elements,
                   autoGenerateTimeout, autoGenPending, microtasks, lastGeneration,
                   lastEval,
                   burst>>

\* the host replaces its global crypto object
CryptoObjectReplaced(cr) ==
    /\ Callable
    /\ cr # crypto
    /\ crypto' = cr
    /\ Called
    /\ UNCHANGED <<clipboardWrites, lastDestroy, copyBtn, lastFormat, page, state, elements, feedback,
                   hideTimers, autoGenerateTimeout, autoGenPending, microtasks,
                   lastGeneration, lastEval,
                   burst>>

\* a caller evaluates a password of its own: evaluatePasswordSecurity
\* (main.js 275-302) called on the controller
EvaluateCall(password, characterSetSize) ==
    /\ page = "ready"
    /\ Callable
    /\ FeedbackFits(MaxHideTimers)
    /\ Becomes(evaluatePasswordSecurity(World, password, characterSetSize))
    /\ Called
    /\ UNCHANGED <<clipboardWrites, lastDestroy, copyBtn, lastFormat, page, crypto, autoGenerateTimeout,
                   autoGenPending,
                   burst>>

\* a caller formats a number of seconds of its own: formatTimeEstimate
\* (main.js 418-432) called on the controller
FormatTimeEstimateCall(seconds) ==
    /\ page = "ready"
    /\ Callable
    /\ lastFormat' = [seconds |-> seconds, text |-> formatTimeEstimate(seconds)]
    /\ Called
    /\ UNCHANGED <<clipboardWrites, page, crypto, state, elements, feedback, hideTimers, copyBtn,
                   autoGenerateTimeout, autoGenPending, microtasks, lastGeneration,
                   lastEval, lastDestroy,
                   burst>>

\* the 'click' listener of the copy button (main.js 593-595); a disabled
\* button delivers no click; clipboard is what the host offers for copying
CopyBtnClick(clipboard) ==
    /\ page = "ready"
    /\ Callable
    /\ ~elements.copyBtnDisabled
    /\ FeedbackFits(MaxCopyTimers)
    /\ copyBtn.timers + clipboardWrites < MaxCopyTimers
    /\ LET copied == copyPasswordToClipboard(
                         state, [feedback |-> feedback, hideTimers |-> hideTimers],
                         copyBtn, clipboardWrites, clipboard)
       IN  /\ feedback' = copied.fb.feedback
           /\ hideTimers' = copied.fb.hideTimers
           /\ copyBtn' = copied.copyBtn
           /\ clipboardWrites' = copied.clipboardWrites
    /\ Called
    /\ UNCHANGED <<page, crypto, state, elements, autoGenerateTimeout, autoGenPending,
                   microtasks, lastGeneration, lastEval, lastFormat, lastDestroy,
                   burst>>

\* the host's clipboard answers a writeText call, and the continuation of
\* the copyPasswordToClipboard call that waited for it runs (main.js
\* 679-688); the host settles the promise in a task of its own, with no
\* generation waiting
ClipboardAnswers(result) ==
    /\ Idle
    /\ clipboardWrites > 0
    /\ clipboardWrites' = clipboardWrites - 1
    /\ LET copied == copyPasswordToClipboardAfterAwait(
                         [feedback |-> feedback, hideTimers |-> hideTimers],
                         copyBtn, result)
       IN  /\ feedback' = copied.fb.feedback
           /\ hideTimers' = copied.fb.hideTimers
           /\ copyBtn' = copied.copyBtn
    /\ UNCHANGED <<page, crypto, state, elements, autoGenerateTimeout, autoGenPending,
                   microtasks, scriptCalls, lastGeneration, lastEval, lastFormat,
                   lastDestroy,
                   burst>>

\* the 'click' listener of the visibility button (main.js 598-600); a
\* disabled button delivers no click
ToggleVisibilityClick ==
    /\ page = "ready"
    /\ Callable
    /\ ~elements.toggleVisibilityDisabled
    /\ LET toggled == togglePasswordVisibility(state, elements)
       IN  /\ state' = toggled.state
           /\ elements' = toggled.elements
    /\ Called
    /\ UNCHANGED <<page, crypto, feedback, hideTimers, autoGenerateTimeout,
                   autoGenPending, microtasks, lastGeneration, lastEval, lastFormat,
                   copyBtn, clipboardWrites, lastDestroy,
                   burst>>

\* the callback of a success-flash timer of showCopySuccess (main.js 727-729)
CopyFlashTimerFires ==
    /\ Idle
    /\ copyBtn.timers > 0
    /\ copyBtn' = [flash |-> FALSE, timers |-> copyBtn.timers - 1]
    /\ UNCHANGED <<clipboardWrites, page, crypto, state, elements, feedback, hideTimers,
                   autoGenerateTimeout, autoGenPending, microtasks, scriptCalls,
                   lastGeneration, lastEval, lastFormat, lastDestroy,
                   burst>>

\* the 'beforeunload' listener (main.js 960-964): destroy on the generator
\* the page holds; the page lives on until the next document replaces it
BeforeUnload ==
    /\ page = "ready"
    /\ Callable
    /\ LET cleaned == destroy(state, autoGenerateTimeout, autoGenPending)
       IN  /\ state' = cleaned.state
           /\ autoGenPending' = cleaned.autoGenPending
           /\ lastDestroy' = [ran |-> TRUE,
                              pendingBefore |-> autoGenPending,
                              pendingAfter |-> cleaned.autoGenPending,
                              currentPassword |-> cleaned.state.currentPassword]
    /\ Called
    /\ UNCHANGED <<clipboardWrites, page, crypto, elements, feedback, hideTimers, autoGenerateTimeout,
                   microtasks, lastGeneration, lastEval, lastFormat, copyBtn,
                   burst>>

\* the page loads with the controls as the browser restored them; the
\* user or a script then asks for passwords; the host may replace its
\* crypto object
Next ==
    \/ \E controls \in RestoredControls : InitializePasswordGenerator(controls)
    \/ GenerateBtnClick("browser")
    \/ FormSubmit("browser")
    \/ GenerationResumes
    \/ FeedbackHideTimerFires
    \/ \E cr \in CryptoStates : CryptoObjectReplaced(cr)

Spec == Init /\ [][Next]_vars

\* the page loads with the default controls; the user moves the slider
\* and ticks and unticks the five checkboxes, events that deliver the value
\* the control already has included, and the debounced generation follows
NextUI ==
    \/ InitializePasswordGenerator(DefaultControls)
    \/ \E value \in SessionSliderValues : LengthSliderInput(value)
    \/ \E change \in SessionCheckboxChanges : CheckboxChange(change[1], change[2])
    \/ AutoGenerateTimerFires
    \/ GenerationResumes
    \/ FeedbackHideTimerFires

SpecUI == Init /\ [][NextUI]_vars

\* the page loads with the default controls, or with the two controls
\* that provideFeedback reads (main.js 516, 520) restored the other way; a
\* caller evaluates passwords of its own
NextEval ==
    \/ \E controls \in EvalControls : InitializePasswordGenerator(controls)
    \/ GenerationResumes
    \/ \E case \in EvalCases : EvaluateCall(case[1], case[2])
    \/ FeedbackHideTimerFires

SpecEval == Init /\ [][NextEval]_vars

\* the page loads with the default controls; a caller evaluates passwords
\* of its own while the user ticks and unticks the symbols checkbox
NextEvalState ==
    \/ InitializePasswordGenerator(DefaultControls)
    \/ GenerationResumes
    \/ \E checked \in BOOLEAN : CheckboxChange("includeSymbols", checked)
    \/ \E case \in EvalCases : EvaluateCall(case[1], case[2])
    \/ FeedbackHideTimerFires

SpecEvalState == Init /\ [][NextEvalState]_vars

\* the page loads with the default controls; a caller formats numbers of
\* seconds of its own while the user ticks and unticks the checkboxes
NextFormat ==
    \/ InitializePasswordGenerator(DefaultControls)
    \/ GenerationResumes
    \/ \E id \in CheckboxIds, checked \in BOOLEAN : CheckboxChange(id, checked)
    \/ \E seconds \in FormatInputs : FormatTimeEstimateCall(seconds)

SpecFormat == Init /\ [][NextFormat]_vars

\* the page loads with the default controls; the user moves the slider,
\* shows or hides the password and copies it, repeatedly, while messages
\* are shown and errors reach the window, and the page is left
NextFeedback ==
    \/ InitializePasswordGenerator(DefaultControls)
    \/ GenerationResumes
    \/ \E value \in SessionSliderValues : LengthSliderInput(value)
    \/ AutoGenerateTimerFires
    \/ \E clipboard \in Clipboards : CopyBtnClick(clipboard)
    \/ \E result \in {"written", "rejected"} : ClipboardAnswers(result)
    \/ ToggleVisibilityClick
    \/ BeforeUnload
    \/ WindowError
    \/ FeedbackHideTimerFires
    \/ CopyFlashTimerFires

SpecFeedback == Init /\ [][NextFeedback]_vars

\* the page loads with the default controls; the user changes the
\* controls, the debounced generation follows, a script clicks the button,
\* and the page is left
NextCleanup ==
    \/ InitializePasswordGenerator(DefaultControls)
    \/ GenerationResumes
    \/ \E checked \in BOOLEAN : CheckboxChange("includeSymbols", checked)
    \/ AutoGenerateTimerFires
    \/ \E dispatcher \in Dispatchers : GenerateBtnClick(dispatcher)
    \/ FeedbackHideTimerFires
    \/ BeforeUnload

SpecCleanup == Init /\ [][NextCleanup]_vars

(***************************************************************************)
(* Properties.                                                             *)
(***************************************************************************)
HasCharacterType(st) ==
    st.includeUppercase \/ st.includeLowercase \/ st.includeNumbers \/ st.includeSymbols

ValidConfiguration(st) ==
    HasCharacterType(st) /\ st.length >= 4 /\ st.length <= 128

\* C1: a successful generatePassword under a valid configuration leaves a
\* password whose length is state.length and whose every character is a
\* member of the pool buildCharacterSet returns for that configuration,
\* whatever the random values were (under Spec the configuration read by
\* the call is still the one of the state when the password is stored)
C1_GeneratedFromPool ==
    lastGeneration.outcome = "generated" =>
        /\ ValidConfiguration(state)
        /\ lastGeneration.drawn = state.length
        /\ Len(state.currentPassword) = state.length
        /\ \A pool \in {CharsOf(buildCharacterSet(state))} :
              \A i \in 1..Len(state.currentPassword) : state.currentPassword[i] \in pool
        /\ elements.generatedPassword = state.currentPassword

\* a password of the maximal length was generated from a filtered pool,
\* its first character drawn with the random value 2^32 - 3
C1_Witness ==
    /\ lastGeneration.outcome = "generated"
    /\ state.length = MAX_LENGTH
    /\ state.excludeAmbiguous
    /\ Len(state.currentPassword) = MAX_LENGTH
    /\ LET pool == buildCharacterSet(state)
       IN  state.currentPassword[1]
             = pool[Uint32Mod([hi |-> 65535, lo |-> 65533], Len(pool)) + 1]

\* C2: when no include flag is set or the length is outside 4..128, a
\* generatePassword call is a validation failure: every step that ends
\* in such a configuration leaves state.currentPassword and the displayed
\* password as they were and queues no continuation, and a generatePassword
\* call recorded in it is recorded as refused by validateConfiguration,
\* with no random value drawn
C2_InvalidConfigurationGeneratesNothing ==
    [][~ValidConfiguration(state')
          => /\ state'.currentPassword = state.currentPassword
             /\ elements'.generatedPassword = elements.generatedPassword
             /\ microtasks' = microtasks
             /\ lastGeneration' # lastGeneration
                   => /\ lastGeneration'.outcome = "invalid"
                      /\ ~lastGeneration'.valid
                      /\ lastGeneration'.source = "none"
                      /\ lastGeneration'.drawn = 0]_vars

\* a generated password is still stored and displayed after a generation
\* was refused because no character type was selected
C2_Witness ==
    /\ lastGeneration.outcome = "invalid"
    /\ ~HasCharacterType(state)
    /\ microtasks = <<>>
    /\ state.currentPassword # <<>>
    /\ elements.generatedPassword = state.currentPassword

\* C3: whenever at least one include flag is set, the pool built by
\* buildCharacterSet is not empty, with and without excludeAmbiguous, and
\* no generatePassword call that passed validation ends in the empty-pool
\* branch
C3_PoolNotEmptyAfterValidation ==
    /\ HasCharacterType(state) => Len(buildCharacterSet(state)) > 0
    /\ lastGeneration.valid =>
          /\ lastGeneration.outcome # "emptyPool"
          /\ Len(lastGeneration.pool) > 0

\* validation passed for the symbols alone with the ambiguous characters
\* excluded, and the password was generated from the 19 symbols that remain
C3_Witness ==
    /\ lastGeneration.valid
    /\ lastGeneration.outcome = "generated"
    /\ state.includeSymbols
    /\ ~state.includeUppercase /\ ~state.includeLowercase /\ ~state.includeNumbers
    /\ state.excludeAmbiguous
    /\ Len(lastGeneration.pool) = 19

\* C4: when no cryptographic random source is available, a generatePassword
\* call that passed validation does not fall back to Math.random: once it
\* has completed it has ended in an error, and it has stored no password
C4_NoFallbackWithoutCrypto ==
    (/\ lastGeneration.valid
     /\ lastGeneration.crypto # "available"
     /\ lastGeneration.outcome # "pending") =>
        /\ lastGeneration.outcome = "error"
        /\ lastGeneration.source # "Math.random"

\* the characters the claim calls ambiguous
AmbiguousSet ==
    CharsOf(Str(<<"0", "O", "1", "l", "I",
                  "{", "}", "[", "]", "(", ")", "/", "\\", "|", "grave", "~">>))

\* the characters of the categories enabled in st
EnabledSet(st) ==
    (IF st.includeUppercase THEN 65..90 ELSE {})
    \cup (IF st.includeLowercase THEN 97..122 ELSE {})
    \cup (IF st.includeNumbers THEN 48..57 ELSE {})
    \cup (IF st.includeSymbols THEN CharsOf(symbols) ELSE {})

\* C5: with excludeAmbiguous the pool holds no ambiguous character and
\* every other character of every enabled category; without it the pool
\* holds exactly the characters of the enabled categories
C5_PoolContents ==
    \A pool \in {CharsOf(buildCharacterSet(state))} :
        IF state.excludeAmbiguous
        THEN /\ pool \cap AmbiguousSet = {}
             /\ (EnabledSet(state) \ AmbiguousSet) \subseteq pool
        ELSE pool = EnabledSet(state)

\* a password was generated from all four categories with the ambiguous
\* characters excluded: 24 + 25 + 8 + 19 characters
C5_Witness ==
    /\ lastGeneration.outcome = "generated"
    /\ state.includeUppercase /\ state.includeLowercase
    /\ state.includeNumbers /\ state.includeSymbols
    /\ state.excludeAmbiguous
    /\ Len(lastGeneration.pool) = 76

\* the categories in the order buildCharacterSet appends them
CanonicalOrder == uppercase \o lowercase \o numbers \o symbols

\* C6: the pool holds no character twice, and its characters stand in
\* first-seen order: the order of the categories as appended, and within a
\* category the order of its definition; the pool recorded by the last
\* generation is the pool built again from the same configuration
C6_PoolOrderedWithoutDuplicates ==
    \A pool \in {buildCharacterSet(state)} :
        /\ \A i, j \in 1..Len(pool) : i < j => pool[i] # pool[j]
        /\ \A order \in {[i \in 1..Len(pool) |-> IndexOf(CanonicalOrder, pool[i])]} :
              \A i, j \in 1..Len(pool) : i < j => order[i] < order[j]
        /\ lastGeneration.valid => lastGeneration.pool = pool

\* a pool of more than one category was built: lower-case letters before
\* digits, although the digits have the smaller code units
C6_Witness ==
    /\ lastGeneration.outcome = "generated"
    /\ state.includeLowercase /\ state.includeNumbers
    /\ ~state.includeUppercase /\ ~state.includeSymbols
    /\ lastGeneration.pool = lowercase \o numbers

\* an evaluation has run and lastEval holds its inputs and its report
Evaluated == lastEval.report # NoReport

InCommonList(password) ==
    \E i \in 1..Len(COMMON_PASSWORDS) : toLowerCase(password) = COMMON_PASSWORDS[i]

\* C7: a password that equals an entry of the common-password list when
\* case is ignored is reported as common, its adjusted entropy is at most
\* 10 bits for every pool size, and its level is VERY_WEAK
C7_CommonPasswordCapped ==
    (Evaluated /\ InCommonList(lastEval.password)) =>
        /\ lastEval.report.isCommon
        /\ ~Less(Number(10), lastEval.report.adjustedEntropy)
        /\ lastEval.report.securityLevel.level = "VERY_WEAK"

\* PASSWORD was evaluated with the pool of 88 characters, where its
\* entropy is above 40 bits, so the cap decides
C7_Witness ==
    /\ Evaluated
    /\ lastEval.password = Str(<<"P", "A", "S", "S", "W", "O", "R", "D">>)
    /\ lastEval.characterSetSize = 88
    /\ lastEval.report.isCommon
    /\ Less(Number(40), lastEval.report.entropy)
    /\ lastEval.report.adjustedEntropy = Number(10)

\* C8: the evaluation of the empty password with any pool size, and of
\* any password with pool size 0, completes with entropy 0 before and
\* after the penalties and with the level VERY_WEAK
C8_EmptyInputsHaveZeroEntropy ==
    (Evaluated /\ (lastEval.password = <<>> \/ lastEval.characterSetSize = 0)) =>
        /\ lastEval.report.entropy = Zero
        /\ lastEval.report.adjustedEntropy = Zero
        /\ lastEval.report.securityLevel.level = "VERY_WEAK"

\* a common password was evaluated with pool size 0
C8_Witness ==
    /\ Evaluated
    /\ lastEval.password = Str(<<"p", "a", "s", "s", "w", "o", "r", "d">>)
    /\ lastEval.characterSetSize = 0
    /\ lastEval.report.isCommon
    /\ lastEval.report.adjustedEntropy = Zero

\* the level of the half-open intervals [0,25) [25,50) [50,75) [75,100)
\* [100,125) [125,+inf)
ExpectedTier(bits) ==
    IF Less(bits, Number(25)) THEN "VERY_WEAK"
    ELSE IF Less(bits, Number(50)) THEN "WEAK"
    ELSE IF Less(bits, Number(75)) THEN "FAIR"
    ELSE IF Less(bits, Number(100)) THEN "GOOD"
    ELSE IF Less(bits, Number(125)) THEN "STRONG"
    ELSE "EXCELLENT"

\* C9: the adjusted entropy of every evaluation, which Math.max keeps at
\* 0 or above, lies in exactly one interval of SECURITY_LEVELS; the level
\* reported is the one of the half-open intervals, a boundary value taking
\* the upper level, and the return after the loop of
\* determineSecurityLevel is not reached
C9_TierIsHalfOpenIntervalMap ==
    Evaluated =>
        /\ Cardinality({i \in 1..Len(SECURITY_LEVELS) :
                           LevelMatches(lastEval.report.adjustedEntropy,
                                        SECURITY_LEVELS[i])}) = 1
        /\ lastEval.report.securityLevel.level
              = ExpectedTier(lastEval.report.adjustedEntropy)
        /\ ~lastEval.report.securityLevel.fallback

\* an evaluation came out at exactly 25 bits and was given the level WEAK
C9_Witness ==
    /\ Evaluated
    /\ lastEval.report.adjustedEntropy = Number(25)
    /\ lastEval.report.securityLevel.level = "WEAK"
    /\ ~lastEval.report.securityLevel.fallback

\* C10: an evaluation of the password and pool size of the evaluation
\* before it produces the same report (entropy, level, crack time, common
\* flag and recommendations), whatever state holds at either evaluation
C10_EvaluationDependsOnInputsOnly ==
    [][(/\ Evaluated
        /\ lastEval'.report # NoReport
        /\ lastEval'.password = lastEval.password
        /\ lastEval'.characterSetSize = lastEval.characterSetSize)
          => lastEval'.report = lastEval.report]_vars

\* the class of a character: lower-case letter, upper-case letter, digit or
\* other
CharClass(c) ==
    IF c \in 97..122 THEN "lowercase"
    ELSE IF c \in 65..90 THEN "uppercase"
    ELSE IF c \in 48..57 THEN "digit"
    ELSE "other"

ClassesIn(password) == {CharClass(password[i]) : i \in 1..Len(password)}

\* the bonus table in hundredths, by number of classes
BonusTable == <<0, 8, 18, 28>>

\* C11: the diversity bonus of an evaluated password is 0 when the
\* password is shorter than 8 characters, whatever classes it holds, and
\* otherwise 0, 0.08, 0.18, 0.28 for 1, 2, 3, 4 classes present
C11_DiversityBonusByLengthAndClasses ==
    (Evaluated /\ lastEval.password # <<>>) =>
        calculateDiversityBonus(lastEval.password, Len(lastEval.password))
          = IF Len(lastEval.password) < 8 THEN 0
            ELSE BonusTable[Cardinality(ClassesIn(lastEval.password))]

\* Ab1! was evaluated: four classes in four characters, and the entropy
\* reported is the basic entropy 4 * log2(88) without any bonus
C11_Witness ==
    /\ Evaluated
    /\ lastEval.password = Str(<<"A", "b", "1", "!">>)
    /\ lastEval.characterSetSize = 88
    /\ Cardinality(ClassesIn(lastEval.password)) = 4
    /\ lastEval.report.entropy = Times(Number(4), Log2(88))

abcXYZ999 == Str(<<"a", "b", "c", "X", "Y", "Z", "9", "9", "9">>)

\* the windows of the password counted as a sequence
SequenceHits(password) == AscendingWindows(password) \cup DescendingWindows(password)

\* C12 as stated: of the windows of abcXYZ999, abc is counted as a
\* sequence, XYZ is not and 999 is not
C12_OnlyAbcIsAHit ==
    (Evaluated /\ lastEval.password = abcXYZ999) =>
        /\ 1 \in SequenceHits(lastEval.password)
        /\ 4 \notin SequenceHits(lastEval.password)
        /\ 7 \notin SequenceHits(lastEval.password)

\* C12 amended: of the windows of abcXYZ999, abc and XYZ are counted as
\* sequences and no other window is, 999 included; the penalty is 2/7
C12_AbcAndXYZAreHits ==
    (Evaluated /\ lastEval.password = abcXYZ999) =>
        /\ SequenceHits(lastEval.password) = {1, 4}
        /\ calculateSequencePenalty(lastEval.password) = [num |-> 2, den |-> 7]

\* abcXYZ999 was evaluated with the pool of 88 characters: its entropy is
\* 9 * log2(88) times 1 - 2/7 times 1.18, the bonus of three classes
C12_Witness ==
    /\ Evaluated
    /\ lastEval.password = abcXYZ999
    /\ lastEval.characterSetSize = 88
    /\ lastEval.report.entropy
          = Times(Times(Times(Number(9), Log2(88)), OneMinus(Ratio(2, 7))),
                  OnePlus(Ratio(18, 100)))

\* the windows of three characters whose codes step by +1 twice or by -1
\* twice
MonotonicWindows(password) ==
    {i \in 1..(Len(password) - 2) :
        \E step \in {-1, 1} : /\ password[i + 1] - password[i] = step
                              /\ password[i + 2] - password[i + 1] = step}

\* C13: the sequence penalty of an evaluated password of length n >= 3 is
\* min(hits / (n - 2), 1/2) with hits the number of monotonic windows; it
\* is 0 for a password shorter than 3, and it lies in [0, 1/2]
C13_SequencePenaltyFormula ==
    Evaluated =>
        LET password == lastEval.password
            n        == Len(password)
            hits     == Cardinality(MonotonicWindows(password))
            penalty  == calculateSequencePenalty(password)
        IN  /\ penalty.den > 0 /\ penalty.num >= 0
            /\ 2 * penalty.num <= penalty.den
            /\ SequenceCount(password) = hits
            /\ IF n < 3 THEN penalty.num = 0
               ELSE IF 2 * hits >= n - 2 THEN 2 * penalty.num = penalty.den
               ELSE penalty.num * (n - 2) = hits * penalty.den

\* 123456 was evaluated: all four windows are hits and the penalty is
\* capped, so half of 6 * log2(26) is left
C13_Witness ==
    /\ Evaluated
    /\ lastEval.password = Str(<<"1", "2", "3", "4", "5", "6">>)
    /\ lastEval.characterSetSize = 26
    /\ Cardinality(MonotonicWindows(lastEval.password)) = 4
    /\ calculateSequencePenalty(lastEval.password) = [num |-> 1, den |-> 2]
    /\ lastEval.report.entropy = Times(Times(Number(6), Log2(26)), Ratio(1, 2))

\* a formatTimeEstimate call of a caller has run
Formatted == lastFormat.text.unit # ""

\* the unit of each range of seconds
ExpectedUnit(seconds) ==
    IF ~Less(seconds, Number(31536000)) THEN "years"
    ELSE IF ~Less(seconds, Number(86400)) THEN "dias"
    ELSE IF ~Less(seconds, Number(3600)) THEN "horas"
    ELSE IF ~Less(seconds, Number(60)) THEN "minutos"
    ELSE IF ~Less(seconds, Number(1)) THEN "segundos"
    ELSE "Instantaneo"

YearUnits == {"anos", "anos (toLocaleString)", "millones de anos",
              "billones de anos", "Mas que la edad del universo"}

\* C14: formatTimeEstimate renders 59 seconds as 59 segundos, and changes
\* unit exactly at 60 seconds (minutes), 3600 (hours), 86400 (days) and
\* 31536000 (years); every value below a threshold has the smaller unit
C14_UnitChangesAtThresholds ==
    Formatted =>
        /\ IF ExpectedUnit(lastFormat.seconds) = "years"
           THEN lastFormat.text.unit \in YearUnits
           ELSE lastFormat.text.unit = ExpectedUnit(lastFormat.seconds)
        /\ lastFormat.seconds = Number(59)
              => lastFormat.text = [unit |-> "segundos", value |-> 59]
        /\ lastFormat.seconds = Number(60)
              => lastFormat.text = [unit |-> "minutos", value |-> 1]
        /\ lastFormat.seconds = Number(3600)
              => lastFormat.text = [unit |-> "horas", value |-> 1]
        /\ lastFormat.seconds = Number(86400)
              => lastFormat.text = [unit |-> "dias", value |-> 1]
        /\ lastFormat.seconds = Number(31536000)
              => lastFormat.text = [unit |-> "anos", value |-> 1]

\* the largest Number below 60 seconds was formatted, in seconds, and
\* after it exactly 60 seconds, as 1 minute
C14_Witness ==
    /\ lastFormat.seconds = Number(60)
    /\ lastFormat.text = [unit |-> "minutos", value |-> 1]
    /\ formatTimeEstimate(Below(Number(60))).unit = "segundos"

\* the password, lower-cased, holds one of the fragments as a substring
HoldsFragment(password) ==
    \E i \in 1..Len(KEYBOARD_PATTERNS) :
        \E k \in 1..Len(password) :
            /\ k + Len(KEYBOARD_PATTERNS[i]) - 1 <= Len(password)
            /\ SubSeq(toLowerCase(password), k, k + Len(KEYBOARD_PATTERNS[i]) - 1)
                  = KEYBOARD_PATTERNS[i]

\* entropy * (1 - commonPenalty) * (1 - keyboardPenalty), with
\* commonPenalty 0.5 iff common and keyboardPenalty 0.4 iff a fragment is
\* held
PenalisedProduct(password, entropy) ==
    Times(Times(entropy,
                OneMinus(IF InCommonList(password) THEN Ratio(5, 10) ELSE Zero)),
          OneMinus(IF HoldsFragment(password) THEN Ratio(4, 10) ELSE Zero))

\* C15 as stated: the final entropy of every evaluation is the entropy
\* before the dictionary penalties times (1 - commonPenalty) times
\* (1 - keyboardPenalty), and never exceeds that entropy
C15_FinalEntropyIsPenalisedProduct ==
    Evaluated =>
        /\ lastEval.report.adjustedEntropy
              = PenalisedProduct(lastEval.password, lastEval.report.entropy)
        /\ ~Less(lastEval.report.entropy, lastEval.report.adjustedEntropy)

\* C15 amended: the final entropy is that product, except that for a
\* common password it is the smaller of the product and 10 bits; it never
\* exceeds the entropy before the dictionary penalties
C15_FinalEntropyIsPenalisedProductCapped ==
    Evaluated =>
        /\ lastEval.report.adjustedEntropy
              = IF InCommonList(lastEval.password)
                THEN MathMin(PenalisedProduct(lastEval.password,
                                              lastEval.report.entropy),
                             Number(10))
                ELSE PenalisedProduct(lastEval.password, lastEval.report.entropy)
        /\ ~Less(lastEval.report.entropy, lastEval.report.adjustedEntropy)

\* QwErTy7k was evaluated with the pool of 88 characters: not common, the
\* fragment qwerty held in mixed case, and 0.6 of the entropy left
C15_Witness ==
    /\ Evaluated
    /\ lastEval.password = Str(<<"Q", "w", "E", "r", "T", "y", "7", "k">>)
    /\ lastEval.characterSetSize = 88
    /\ ~lastEval.report.isCommon
    /\ Less(Zero, lastEval.report.entropy)
    /\ lastEval.report.adjustedEntropy
          = Times(lastEval.report.entropy, OneMinus(Ratio(4, 10)))

\* a password was generated with all four categories and the ambiguous
\* characters kept
GeneratedFromAllCategories ==
    /\ lastGeneration.outcome = "generated"
    /\ state.includeUppercase /\ state.includeLowercase
    /\ state.includeNumbers /\ state.includeSymbols
    /\ ~state.excludeAmbiguous

\* C16 as stated: with all four include flags and excludeAmbiguous false
\* the pool has 94 characters, 32 of them symbols
C16_FullPoolHas94Characters ==
    GeneratedFromAllCategories =>
        /\ Len(lastGeneration.pool) = 94
        /\ Len(symbols) = 32

\* C16 amended: with all four include flags and excludeAmbiguous false the
\* pool has 88 characters: 26 upper-case, 26 lower-case, 10 digits and the
\* 26 symbols of CHARACTER_SETS.symbols
C16_FullPoolHas88Characters ==
    GeneratedFromAllCategories =>
        /\ Len(lastGeneration.pool) = 88
        /\ Len(buildCharacterSet(state)) = 26 + 26 + 10 + 26
        /\ Len(symbols) = 26

\* a password of the default length was generated from the full pool
C16_Witness ==
    /\ GeneratedFromAllCategories
    /\ lastGeneration.length = DEFAULT_LENGTH
    /\ Len(state.currentPassword) = DEFAULT_LENGTH
    /\ Len(lastGeneration.pool) = 88

\* the password holds three identical characters in a row
HasRepetition(password) ==
    \E i \in 1..(Len(password) - 2) :
        password[i] = password[i + 1] /\ password[i + 1] = password[i + 2]

\* the entropy of the password without any sequence penalty
Unpenalised(password, characterSetSize) ==
    Times(Times(Number(Len(password)), Log2(characterSetSize)),
          OnePlus(Ratio(calculateDiversityBonus(password, Len(password)), 100)))

\* C17: an evaluated password that holds a run of three identical
\* characters has a sequence penalty above 0, and so an entropy below the
\* one a password of its length and classes has without any run
C17_RepetitionIsPenalised ==
    (Evaluated /\ HasRepetition(lastEval.password) /\ lastEval.characterSetSize > 1) =>
        /\ calculateSequencePenalty(lastEval.password).num > 0
        /\ Less(lastEval.report.entropy,
                Unpenalised(lastEval.password, lastEval.characterSetSize))

\* C19: when a generatePassword call completes with a new password for
\* which at least one recommendation rule fired, the feedback element is
\* shown at the end of the call and carries those recommendations
C19_RecommendationsVisibleAfterGeneration ==
    [][(/\ lastGeneration' # lastGeneration
        /\ lastGeneration'.outcome = "generated"
        /\ lastEval'.password = state'.currentPassword
        /\ lastEval'.report.recommendations # <<>>)
          => /\ feedback'.show
             /\ feedback'.textContent.recs = lastEval'.report.recommendations]_vars

\* a listener of the slider or of a checkbox runs, whatever value the event
\* delivers
ControlChanges ==
    \/ \E value \in SessionSliderValues : LengthSliderInput(value)
    \/ \E id \in CheckboxIds, checked \in BOOLEAN : CheckboxChange(id, checked)

\* C18: at most one auto-generate timer is pending at any moment; every
\* run of the listener of the slider or of a checkbox, a run that delivers
\* the value the control already has included, leaves exactly one pending;
\* generatePassword is called after the page load only by a timer that
\* fires; and when the timer fires no other is left, so the changes of a
\* burst cause one generatePassword call, which reads the state as the last
\* change wrote it: it validates that state, and the password it queues is
\* drawn for the length and from the pool of that state
C18_DebouncedAutoGeneration ==
    /\ [](autoGenPending <= 1)
    /\ [][/\ ControlChanges => autoGenPending' = 1
          /\ (/\ page = "ready"
              /\ lastGeneration' # lastGeneration
              /\ Len(microtasks') >= Len(microtasks))
                => autoGenPending' < autoGenPending
          /\ autoGenPending' < autoGenPending
                => /\ autoGenPending' = 0
                   /\ state' = state
                   /\ burst' = burst
                   /\ lastGeneration'.length = state.length
                   /\ lastGeneration'.valid = ValidConfiguration(state)
                   /\ lastGeneration'.outcome
                         = IF ValidConfiguration(state) THEN "pending" ELSE "invalid"
                   /\ ValidConfiguration(state)
                         => /\ lastGeneration'.pool = buildCharacterSet(state)
                            /\ Len(microtasks') = 1
                            /\ microtasks'[1].length = state.length
                            /\ microtasks'[1].pool = buildCharacterSet(state)]_vars

\* a burst of several changes left the letters alone ticked; the timer has
\* fired once since, no timer is pending, and the one generatePassword call
\* of the burst waits at its await with the 52 letters as its pool, while
\* the password of the page load, which holds a character that is no
\* letter, is still the one stored and shown
C18_Witness ==
    /\ burst = "several"
    /\ autoGenerateTimeout = "id"
    /\ autoGenPending = 0
    /\ ~state.includeSymbols
    /\ ~state.includeNumbers
    /\ state.includeUppercase /\ state.includeLowercase
    /\ state.length = DEFAULT_LENGTH
    /\ lastGeneration.outcome = "pending"
    /\ lastGeneration.pool = buildCharacterSet(state)
    /\ Len(lastGeneration.pool) = 52
    /\ Len(microtasks) = 1
    /\ microtasks[1].pool = buildCharacterSet(state)
    /\ microtasks[1].length = DEFAULT_LENGTH
    /\ Len(state.currentPassword) = DEFAULT_LENGTH
    /\ elements.generatedPassword = state.currentPassword
    /\ \E i \in 1..Len(state.currentPassword) :
          ~CharIn(state.currentPassword[i], lastGeneration.pool)

\* C20: a message that is visible is hidden by an auto-hide timer only
\* when that timer is its own, the one armed last: no timer of an earlier
\* message, still pending beside it, hides it
C20_OnlyOwnTimerHidesMessage ==
    [][(feedback.show /\ ~feedback'.show /\ hideTimers' < hideTimers)
          => hideTimers = 1]_vars

\* C21: a destroy call leaves state.currentPassword empty and no
\* auto-generate timer pending, so a timer scheduled before the call does
\* not fire after it; and the step leaves the stored password empty
C21_DestroyClearsPasswordAndTimer ==
    /\ [](lastDestroy.ran => /\ lastDestroy.currentPassword = <<>>
                             /\ lastDestroy.pendingAfter = 0)
    /\ [][lastDestroy' # lastDestroy
             => /\ state'.currentPassword = <<>>
                /\ autoGenPending' = 0]_vars

\* destroy ran while a password was stored and an auto-generation was
\* pending: the password is gone and nothing is pending
C21_Witness ==
    /\ lastDestroy.ran
    /\ lastDestroy.pendingBefore = 1
    /\ lastDestroy.pendingAfter = 0
    /\ lastGeneration.outcome = "generated"
    /\ elements.generatedPassword # <<>>
    /\ state.currentPassword = <<>>
    /\ autoGenPending = 0

====
